---- MODULE Spec2Model ----
(***************************************************************************)
(* Model of MarkerBasedQuestionParser                                      *)
(* (src/src/components/simple_text_question_parser.py).                    *)
(*                                                                         *)
(* A text is a sequence of one-character strings, so that stripping,       *)
(* joining, slicing and the two regular expressions of the parser are      *)
(* computed character by character as Python computes them.  Fragment      *)
(* indices are the enumerate() indices of parse() plus one.                *)
(***************************************************************************)
EXTENDS Integers, Sequences, FiniteSets, TLC

(***************************************************************************)
(* Bounds of the explored inputs.                                          *)
(***************************************************************************)
\* longest fragment sequence drawn freely from Vocab
MaxFrags == 4
\* number of option slots that follow the stem in the structured inputs
MaxSlots == 4

(***************************************************************************)
(* Characters and Python string helpers.                                   *)
(***************************************************************************)
Whitespace == {" "}

Digits == {"0", "1", "2", "3", "4", "5", "6", "7", "8", "9"}

DigitVal(c) ==
    CASE c = "0" -> 0 [] c = "1" -> 1 [] c = "2" -> 2 [] c = "3" -> 3
      [] c = "4" -> 4 [] c = "5" -> 5 [] c = "6" -> 6 [] c = "7" -> 7
      [] c = "8" -> 8 [] c = "9" -> 9

\* text[i:j] of Python for the 1-based, inclusive range i..j
Slice(s, i, j) == IF i > j THEN <<>> ELSE SubSeq(s, i, j)

RECURSIVE LStrip(_)
LStrip(s) ==
    IF s # <<>> /\ Head(s) \in Whitespace THEN LStrip(Tail(s)) ELSE s

RECURSIVE RStrip(_)
RStrip(s) ==
    IF s # <<>> /\ s[Len(s)] \in Whitespace
    THEN RStrip(SubSeq(s, 1, Len(s) - 1))
    ELSE s

\* str.strip()
Strip(s) == LStrip(RStrip(s))

\* " ".join(p.strip() for p in parts if p.strip())
RECURSIVE Join(_)
Join(parts) ==
    IF parts = <<>> THEN <<>>
    ELSE LET p    == Strip(Head(parts))
             rest == Join(Tail(parts))
         IN  IF p = <<>> THEN rest
             ELSE IF rest = <<>> THEN p
             ELSE p \o <<" ">> \o rest

\* int(digits)
RECURSIVE ToInt(_)
ToInt(ds) ==
    IF ds = <<>> THEN 0
    ELSE 10 * ToInt(SubSeq(ds, 1, Len(ds) - 1)) + DigitVal(ds[Len(ds)])

\* first index >= i of s whose character is not in the class cs (Len(s)+1
\* when there is none): the greedy cs* of a regular expression
RECURSIVE SkipClass(_, _, _)
SkipClass(s, i, cs) ==
    IF i <= Len(s) /\ s[i] \in cs THEN SkipClass(s, i + 1, cs) ELSE i

(***************************************************************************)
(* QUESTION_START_RE = ^Q\s*\.?\s*(\d+)\s*[).:-]?$                         *)
(* The character classes that follow one another are disjoint, so the      *)
(* greedy left-to-right walk is the only way the expression can match.     *)
(***************************************************************************)
TrailingPunct == {")", ".", ":", "-"}

NoMatch == -1

\* the part of the expression after the leading Q, matched from index i:
\* \s*\.?\s*(\d+)\s*[).:-]?$ ; int(group(1)), or NoMatch
LabelTail(txt, i) ==
    LET i1 == SkipClass(txt, i, Whitespace)
        i2 == IF i1 <= Len(txt) /\ txt[i1] = "." THEN i1 + 1 ELSE i1
        i3 == SkipClass(txt, i2, Whitespace)
        i4 == SkipClass(txt, i3, Digits)
        i5 == SkipClass(txt, i4, Whitespace)
        i6 == IF i5 <= Len(txt) /\ txt[i5] \in TrailingPunct
              THEN i5 + 1 ELSE i5
    IN  IF i4 > i3 /\ i6 = Len(txt) + 1
        THEN ToInt(Slice(txt, i3, i4 - 1))
        ELSE NoMatch

\* the expression with the leading Q made optional: ^Q?\s*\.?\s*(\d+)...
QuestionStartOptionalQ(txt) ==
    IF txt # <<>> /\ txt[1] = "Q" THEN LabelTail(txt, 2) ELSE LabelTail(txt, 1)

\* m_q = QUESTION_START_RE.match(txt): int(m_q.group(1)), or NoMatch
QUESTION_START_RE(txt) ==
    IF txt # <<>> /\ txt[1] = "Q" THEN LabelTail(txt, 2) ELSE NoMatch

(***************************************************************************)
(* INLINE_OPTION_PATTERN = \(([1-4])\)\s*                                  *)
(***************************************************************************)
OptionDigits == {"1", "2", "3", "4"}

MarkerNums == 1..4

\* INLINE_OPTION_PATTERN.match(text[pos:]): the index just after the match
\* (pos when the expression does not match at pos)
InlineMatchEnd(text, pos) ==
    IF /\ pos + 2 <= Len(text)
       /\ text[pos] = "("
       /\ text[pos + 1] \in OptionDigits
       /\ text[pos + 2] = ")"
    THEN SkipClass(text, pos + 3, Whitespace)
    ELSE pos

\* list(INLINE_OPTION_PATTERN.finditer(text)) from index i on: the
\* non-overlapping matches, left to right, as <<num, start>> pairs
RECURSIVE FindIter(_, _)
FindIter(text, i) ==
    IF i > Len(text) THEN <<>>
    ELSE LET e == InlineMatchEnd(text, i)
         IN  IF e > i
             THEN <<[num |-> DigitVal(text[i + 1]), pos |-> i]>>
                      \o FindIter(text, e)
             ELSE FindIter(text, i + 1)

\* sorted(..., key=lambda x: x[1]): the records of S ascending by position
RECURSIVE SortByPos(_)
SortByPos(S) ==
    IF S = {} THEN <<>>
    ELSE LET m == CHOOSE x \in S : \A y \in S : x.pos <= y.pos
         IN  <<m>> \o SortByPos(S \ {m})

\* sorted(..., key=lambda x: x[0]): the records of S ascending by number
RECURSIVE SortByNum(_)
SortByNum(S) ==
    IF S = {} THEN <<>>
    ELSE LET m == CHOOSE x \in S : \A y \in S : x.num <= y.num
         IN  <<m>> \o SortByNum(S \ {m})

\* marker_positions: the first occurrence of each marker number
FirstOccurrences(matches) ==
    { matches[i] : i \in { j \in 1..Len(matches) :
          \A h \in 1..(j - 1) : matches[h].num # matches[j].num } }

\* the loop of lines 226-241: the option texts in the order of `ordered`
InlineOptionTexts(text, ordered) ==
    [ i \in 1..Len(ordered) |->
        LET start == InlineMatchEnd(text, ordered[i].pos)
            end   == IF i + 1 <= Len(ordered)
                     THEN ordered[i + 1].pos
                     ELSE Len(text) + 1
        IN  [num |-> ordered[i].num, opt |-> Strip(Slice(text, start, end - 1))] ]

\* lines 243-245 without the sort: the options left in text order
KeepTextOrder(pairs) == [ i \in 1..Len(pairs) |-> pairs[i].opt ]

\* lines 243-245: sorted(zip(nums, options), key=num), then the options
ReorderByNum(pairs) ==
    LET byNum == SortByNum({ pairs[i] : i \in 1..Len(pairs) })
    IN  [ i \in 1..Len(byNum) |-> byNum[i].opt ]

\* _try_extract_inline_options(text) -> (stem, options)
TryExtractInlineOptions(text) ==
    LET matches == FindIter(text, 1)
        nums    == { matches[i].num : i \in 1..Len(matches) }
    IN  IF nums # MarkerNums
        THEN [stem |-> text, options |-> <<>>]
        ELSE LET ordered == SortByPos(FirstOccurrences(matches))
                 first_pos == ordered[1].pos
             IN  [stem    |-> Strip(Slice(text, 1, first_pos - 1)),
                  options |-> ReorderByNum(InlineOptionTexts(text, ordered))]

(***************************************************************************)
(* Input fragments.  A block is [page, text]; page is NoPage when the key  *)
(* is absent; text is a string ("str"), an object {text: string} ("dict")  *)
(* or missing ("absent").                                                  *)
(***************************************************************************)
NoPage == 0

Str(t) == [kind |-> "str", val |-> t]
Obj(t) == [kind |-> "dict", val |-> t]
Absent == [kind |-> "absent", val |-> <<>>]

Marker(d) == <<"(", d, ")">>

MarkerTexts == { Marker(d) : d \in OptionDigits }

\* question labels and near-labels
LabelTexts ==
    { <<"Q", "1">>, <<"Q", "2">>, <<"Q", "0">>, <<"Q", "1", ".">>,
      <<"Q", ".", " ", "1">>, <<"Q", " ", "1", " ", ":">>, <<"Q", "1", "2", ")">>,
      <<"Q", "1", "-">>, <<"Q", "1", ".", ")">>, <<"Q", "1", " ", "a">>,
      <<"Q">>, <<"Q", ".">>, <<"q", "1">>, <<"5", ".">>, <<"5">>, <<".", "5">>,
      <<"a", "Q", "1">>, <<"Q", ".", ".", "1">>, <<"1", ")">> }

\* three inline markers, the body of "(3)" empty
InlineRest == <<"(", "2", ")", "b", "(", "3", ")", " ", "(", "4", ")", "d">>

\* fragment texts the free sequences are drawn from
Vocab ==
    { Str(<<"Q", "1">>), Obj(<<" ", "Q", "2", " ">>), Str(<<"5", ".">>),
      Str(Marker("1")), Str(<<"a">>), Absent,
      Str(InlineRest), Obj(<<"a", "(", "1", ")">>) }

RECURSIVE SeqsUpTo(_, _)
SeqsUpTo(S, n) ==
    IF n = 0 THEN { <<>> }
    ELSE LET shorter == SeqsUpTo(S, n - 1)
         IN  shorter \cup { Append(q, x) : q \in shorter, x \in S }

\* every fragment sequence of at most MaxFrags fragments over Vocab
FreeInputs == SeqsUpTo(Vocab, MaxFrags)

\* a label or near-label followed by one fragment of text
LabelInputs == { <<Str(l), Str(<<"a">>)>> : l \in LabelTexts }

RECURSIVE Flat(_)
Flat(ss) == IF ss = <<>> THEN <<>> ELSE Head(ss) \o Flat(Tail(ss))

\* the letter that names the body of slot j
SlotLetter(j) ==
    CASE j = 1 -> "a" [] j = 2 -> "b" [] j = 3 -> "c" [] j = 4 -> "d"
      [] j = 5 -> "e" [] OTHER -> "f"

DigitChar(d) == CASE d = 1 -> "1" [] d = 2 -> "2" [] d = 3 -> "3" [] OTHER -> "4"

Stems == { <<>>, <<Str(<<"s">>)>> }

\* one question whose stem is followed by MaxSlots marker-only fragments,
\* with any digits in any order, each with or without a body
MarkerSlot(j, d, body) ==
    IF body THEN <<Str(Marker(DigitChar(d))), Str(<<SlotLetter(j)>>)>>
    ELSE <<Str(Marker(DigitChar(d)))>>

MarkerInputs ==
    { <<Str(<<"Q", "7">>)>> \o stem
         \o Flat([ j \in 1..MaxSlots |-> MarkerSlot(j, ds[j], bs[j]) ]) :
      stem \in Stems,
      ds \in [1..MaxSlots -> MarkerNums], bs \in [1..MaxSlots -> BOOLEAN] }

\* one question whose stem is followed by MaxSlots + 1 fragments that each
\* carry an inline marker and a body, with any digits in any order
InlinePiece(j, d) == Marker(DigitChar(d)) \o <<" ", SlotLetter(j)>>

InlineInputs ==
    { <<Str(<<"Q", "8">>)>> \o stem
         \o [ j \in 1..(MaxSlots + 1) |-> Str(InlinePiece(j, ds[j])) ] :
      stem \in Stems, ds \in [1..(MaxSlots + 1) -> MarkerNums] }

\* one question in which a marker digit occurs twice: a marker-only
\* fragment with a body, then the four digits in any order, each with its
\* body
RepeatInputs ==
    { <<Str(<<"Q", "9">>)>> \o stem
         \o MarkerSlot(5, d, TRUE)
         \o Flat([ j \in 1..4 |-> MarkerSlot(j, ds[j], TRUE) ]) :
      stem \in Stems, d \in MarkerNums,
      ds \in { f \in [1..4 -> MarkerNums] :
                 \A j, h \in 1..4 : j # h => f[j] # f[h] } }

\* the page of the fragment at (1-based) position i under a page pattern:
\* no fragment carries a page, or the first two are on page 1 and the rest
\* on page 2
PageAt(pattern, i) ==
    IF pattern = "none" THEN NoPage ELSE IF i <= 2 THEN 1 ELSE 2

\* every input comes with pages, the shorter ones also without
PagePatterns(texts) ==
    IF Len(texts) < MaxFrags THEN {"none", "split"} ELSE {"split"}

Inputs ==
    FreeInputs \cup LabelInputs \cup MarkerInputs \cup InlineInputs
        \cup RepeatInputs

(***************************************************************************)
(* MarkerBasedQuestionParser.parse                                         *)
(***************************************************************************)
VARIABLES
    text_blocks,     \* the argument of parse()
    pc,              \* position in parse()
    flat,            \* flattened, stripped fragments
    li,              \* position of the locate loop in flat
    questions_meta,  \* detected question starts
    markers,         \* detected marker-only fragments
    qi,              \* position of the question loop in questions_meta
    stem_text,       \* stem of the question being built
    options,         \* options of the question being built
    results          \* the list parse() returns

\* AnswerKeyExtractor.extract_from_text_blocks
VARIABLES
    ak_blocks,       \* the argument of extract_from_text_blocks()
    ak_pc,           \* position in extract_from_text_blocks()
    combined_text,   \* the joined text of the blocks
    answers,         \* the map of the strategy tried last
    strategy         \* the strategy named in the log line of the return

\* AnswerKeyExtractor.validate_answers
VARIABLES
    va_answers,      \* the map argument, as its entries in iteration order
    expected_count,  \* the expected_count argument
    va_pc,           \* position in validate_answers()
    va_i,            \* position of the loop in the entries
    va_result        \* the returned value

\* normalize_text
VARIABLES
    nz_input,        \* the argument of the first call
    nz_text,         \* the text as the pipeline has rewritten it so far
    nz_pc,           \* position in the pipeline
    nz_call,         \* 1 for normalize_text(x), 2 for the call on its result
    nz_once          \* the result of the first call

\* build_dataset_for_paper, build_clean_dataset and process_single_paper
VARIABLES
    questions,       \* the list parser.parse() returned
    answer_map,      \* the map extract_from_json_file() returned
    ds_pc,           \* which builder runs: "build", "clean", "full"
    ds_qi,           \* position of the running loop
    RAW_DATASET,     \* lines of the file build_dataset_for_paper writes
    CLEAN_DATASET,   \* lines of the file build_clean_dataset writes
    clean_records,   \* the list process_single_paper returns
    ds_step,         \* "normalize" before stem and opts of the iteration
                     \* are computed, "decide" after
    ds_stem,         \* stem of the running iteration
    ds_opts          \* opts (options) of the running iteration

\* NougatQuestionParser.parse_markdown_content
VARIABLES
    markdown,           \* the markdown argument
    ng_pc,              \* position in parse_markdown_content()
    question_sections,  \* the (q_num, section) pairs of the split
    ng_i,               \* position of the loop of line 92
    ng_questions        \* the list parse_markdown_content() returns

\* run_tagging
VARIABLES
    INPUT_FILE,      \* the lines of the dataset
    PROGRESS_FILE,   \* the checkpoint file, NoFile when it does not exist
    OUTPUT_FILE,     \* the rows of the tagged dataset, NoFile when none
    tg_pc,           \* position of the running or last run
    tg_questions,    \* questions: the _idx of the loaded questions
    tg_completed,    \* completed
    tg_results,      \* results
    tg_remaining,    \* remaining
    batch_num,       \* batch_num of the loop of line 218
    tg_runs,         \* how many runs have started
    tg_loaded,       \* what load_progress returned to the run
    tg_sent          \* the indices the run has sent to the LLM

\* BatchProcessor
VARIABLES
    pdf_files,       \* the PDFs of pdf_directory, as discover_pdfs lists them
    max_workers,     \* self.max_workers
    stats,           \* self.stats
    bp_pc,           \* the method that runs, "returned" after its return
    bp_i,            \* position of the loop of process_sequential
    bp_results,      \* results of the running or last call
    futures,         \* the futures of process_parallel, by PDF
    bp_calls         \* how many calls have been made on the object

\* paper generation
VARIABLES
    organized,       \* size of organized[subject][question_type][difficulty]
    gp_difficulty,   \* config.difficulty
    selected,        \* what select_questions returns
    gp_pc,           \* "select", "body", "key" or "done"
    gp_subject,      \* position of the running loop over the subjects
    question_num,    \* question_num of generate_latex_document
    paper_body,      \* the questions printed, each with its number
    answer_key       \* the columns of the answer key, each with its number

\* LLM transformation
VARIABLES
    tf_selected,     \* selected, the questions to transform
    tf_pool,         \* the questions of pool that are not selected
    api_key,         \* whether OPENAI_API_KEY is set
    working_set,     \* working_set of transform_questions
    pool_remaining,  \* pool_remaining
    classifications, \* what classify_questions returned, with replacements
    transformed,     \* transformed, the list returned
    tf_pc            \* "start", "replace", "transform", "returned", "raised"

parserVars == <<text_blocks, pc, flat, li, questions_meta, markers, qi,
                stem_text, options, results>>

akVars == <<ak_blocks, ak_pc, combined_text, answers, strategy>>

vaVars == <<va_answers, expected_count, va_pc, va_i, va_result>>

nzVars == <<nz_input, nz_text, nz_pc, nz_call, nz_once>>

dsVars == <<questions, answer_map, ds_pc, ds_qi, RAW_DATASET, CLEAN_DATASET,
           clean_records, ds_step, ds_stem, ds_opts>>

ngVars == <<markdown, ng_pc, question_sections, ng_i, ng_questions>>

tgVars == <<INPUT_FILE, PROGRESS_FILE, OUTPUT_FILE, tg_pc, tg_questions,
           tg_completed, tg_results, tg_remaining, batch_num, tg_runs,
           tg_loaded, tg_sent>>

bpVars == <<pdf_files, max_workers, stats, bp_pc, bp_i, bp_results, futures,
           bp_calls>>

gpVars == <<organized, gp_difficulty, selected, gp_pc, gp_subject,
           question_num, paper_body, answer_key>>

tfVars == <<tf_selected, tf_pool, api_key, working_set, pool_remaining,
           classifications, transformed, tf_pc>>

vars == <<parserVars, akVars, vaVars, nzVars, dsVars, ngVars, tgVars, bpVars, gpVars, tfVars>>

\* the extractor has not been called
AkIdle ==
    /\ ak_blocks = <<>>
    /\ ak_pc = "idle"
    /\ combined_text = <<>>
    /\ answers = <<>>
    /\ strategy = "none"

\* validate_answers has not been called
VaIdle ==
    /\ va_answers = <<>>
    /\ expected_count = 0
    /\ va_pc = "idle"
    /\ va_i = 1
    /\ va_result = FALSE

\* normalize_text has not been called
NzIdle ==
    /\ nz_input = <<>>
    /\ nz_text = <<>>
    /\ nz_pc = "idle"
    /\ nz_call = 1
    /\ nz_once = <<>>

\* no dataset builder has been called
DsIdle ==
    /\ questions = <<>>
    /\ answer_map = <<>>
    /\ ds_pc = "idle"
    /\ ds_qi = 1
    /\ RAW_DATASET = <<>>
    /\ CLEAN_DATASET = <<>>
    /\ clean_records = <<>>
    /\ ds_step = "normalize"
    /\ ds_stem = <<>>
    /\ ds_opts = <<>>

\* parse_markdown_content has not been called
NgIdle ==
    /\ markdown = <<>>
    /\ ng_pc = "idle"
    /\ question_sections = <<>>
    /\ ng_i = 1
    /\ ng_questions = <<>>

\* run_tagging has not been called
TgIdle ==
    /\ INPUT_FILE = <<>>
    /\ PROGRESS_FILE = <<>>
    /\ OUTPUT_FILE = <<>>
    /\ tg_pc = "off"
    /\ tg_questions = <<>>
    /\ tg_completed = {}
    /\ tg_results = <<>>
    /\ tg_remaining = <<>>
    /\ batch_num = 0
    /\ tg_runs = 0
    /\ tg_loaded = <<>>
    /\ tg_sent = {}

\* no BatchProcessor has been constructed
BpIdle ==
    /\ pdf_files = <<>>
    /\ max_workers = 0
    /\ stats = <<>>
    /\ bp_pc = "off"
    /\ bp_i = 1
    /\ bp_results = <<>>
    /\ futures = <<>>
    /\ bp_calls = 0

\* no paper is being generated
GpIdle ==
    /\ organized = <<>>
    /\ gp_difficulty = ""
    /\ selected = <<>>
    /\ gp_pc = "off"
    /\ gp_subject = 1
    /\ question_num = 1
    /\ paper_body = <<>>
    /\ answer_key = <<>>

\* transform_questions has not been called
TfIdle ==
    /\ tf_selected = <<>>
    /\ tf_pool = <<>>
    /\ api_key = FALSE
    /\ working_set = <<>>
    /\ pool_remaining = <<>>
    /\ classifications = <<>>
    /\ transformed = <<>>
    /\ tf_pc = "off"

\* the parser has not been called
ParserIdle ==
    /\ text_blocks = <<>>
    /\ pc = "idle"
    /\ flat = <<>>
    /\ li = 1
    /\ questions_meta = <<>>
    /\ markers = <<>>
    /\ qi = 1
    /\ stem_text = <<>>
    /\ options = <<>>
    /\ results = <<>>

PAPER_ID == "paper"

Init ==
    /\ \E texts \in Inputs : \E pattern \in PagePatterns(texts) :
          text_blocks = [ i \in 1..Len(texts) |->
                            [page |-> PageAt(pattern, i), text |-> texts[i]] ]
    /\ pc = "flatten"
    /\ flat = <<>>
    /\ li = 1
    /\ questions_meta = <<>>
    /\ markers = <<>>
    /\ qi = 1
    /\ stem_text = <<>>
    /\ options = <<>>
    /\ results = <<>>
    /\ AkIdle /\ VaIdle /\ NzIdle /\ DsIdle /\ NgIdle /\ TgIdle /\ BpIdle /\ GpIdle /\ TfIdle

\* lines 253-258: unwrap either text shape and strip
FlatText(text_obj) ==
    Strip(IF text_obj.kind = "absent" THEN <<>> ELSE text_obj.val)

\* lines 250-259
Flatten ==
    /\ pc = "flatten"
    /\ flat' = [ i \in 1..Len(text_blocks) |->
                   [idx  |-> i,
                    page |-> text_blocks[i].page,
                    text |-> FlatText(text_blocks[i].text)] ]
    /\ pc' = "locate"
    /\ li' = 1
    /\ UNCHANGED <<text_blocks, questions_meta, markers, qi, stem_text,
                   options, results,
                   akVars, vaVars, nzVars,
                   dsVars,
                   ngVars,
                   tgVars,
                   bpVars,
                   gpVars,
                   tfVars>>

\* lines 265-274: the entry is a question label
LocateQuestion ==
    /\ pc = "locate"
    /\ li <= Len(flat)
    /\ QUESTION_START_RE(flat[li].text) # NoMatch
    /\ questions_meta' = Append(questions_meta,
           [qnum      |-> QUESTION_START_RE(flat[li].text),
            start_idx |-> flat[li].idx,
            page      |-> flat[li].page])
    /\ li' = li + 1
    /\ UNCHANGED <<text_blocks, pc, flat, markers, qi, stem_text, options,
                   results,
                   akVars, vaVars, nzVars,
                   dsVars,
                   ngVars,
                   tgVars,
                   bpVars,
                   gpVars,
                   tfVars>>

\* lines 276-281: the entry is a marker-only fragment
LocateMarker ==
    /\ pc = "locate"
    /\ li <= Len(flat)
    /\ QUESTION_START_RE(flat[li].text) = NoMatch
    /\ flat[li].text \in MarkerTexts
    /\ markers' = Append(markers,
           [marker |-> DigitVal(flat[li].text[2]),
            idx    |-> flat[li].idx,
            page   |-> flat[li].page])
    /\ li' = li + 1
    /\ UNCHANGED <<text_blocks, pc, flat, questions_meta, qi, stem_text,
                   options, results,
                   akVars, vaVars, nzVars,
                   dsVars,
                   ngVars,
                   tgVars,
                   bpVars,
                   gpVars,
                   tfVars>>

\* lines 265-281: the entry is neither
LocateOther ==
    /\ pc = "locate"
    /\ li <= Len(flat)
    /\ QUESTION_START_RE(flat[li].text) = NoMatch
    /\ flat[li].text \notin MarkerTexts
    /\ li' = li + 1
    /\ UNCHANGED <<text_blocks, pc, flat, questions_meta, markers, qi,
                   stem_text, options, results,
                   akVars, vaVars, nzVars,
                   dsVars,
                   ngVars,
                   tgVars,
                   bpVars,
                   gpVars,
                   tfVars>>

\* questions_meta.sort(key=start_idx): a stable insertion sort
RECURSIVE SortByStartIdx(_)
SortByStartIdx(metas) ==
    IF metas = <<>> THEN <<>>
    ELSE LET m    == CHOOSE i \in 1..Len(metas) :
                        \A j \in 1..Len(metas) :
                            \/ metas[i].start_idx < metas[j].start_idx
                            \/ metas[i].start_idx = metas[j].start_idx /\ i <= j
             rest == [ j \in 1..(Len(metas) - 1) |->
                         IF j < m THEN metas[j] ELSE metas[j + 1] ]
         IN  <<metas[m]>> \o SortByStartIdx(rest)

\* line 283
SortMeta ==
    /\ pc = "locate"
    /\ li > Len(flat)
    /\ questions_meta' = SortByStartIdx(questions_meta)
    /\ pc' = "span"
    /\ qi' = 1
    /\ UNCHANGED <<text_blocks, flat, li, markers, stem_text, options,
                   results,
                   akVars, vaVars, nzVars,
                   dsVars,
                   ngVars,
                   tgVars,
                   bpVars,
                   gpVars,
                   tfVars>>

None == 0

\* lines 296-333 for the span (start_idx, end_idx]: the stem and the
\* marker-based options
RangeBlocks(start_idx, end_idx) ==
    LET InRange(b) == start_idx < b.idx /\ b.idx <= end_idx
    IN  SelectSeq(flat, InRange)

LocalMarkers(start_idx, end_idx) ==
    LET InRange(m) == start_idx < m.idx /\ m.idx <= end_idx
    IN  SelectSeq(markers, InRange)

\* line 302: min(idx of the local markers), default None
FirstMarkerIdx(local_markers) ==
    IF local_markers = <<>> THEN None
    ELSE CHOOSE i \in { local_markers[j].idx : j \in 1..Len(local_markers) } :
            \A j \in 1..Len(local_markers) : i <= local_markers[j].idx

\* lines 303-310: the joined fragments before the first marker
StemText(range_blocks, first_marker_idx) ==
    LET BeforeMarker(b) ==
            (first_marker_idx = None \/ b.idx < first_marker_idx)
            /\ b.text # <<>>
        stem_parts == SelectSeq(range_blocks, BeforeMarker)
    IN  Join([ i \in 1..Len(stem_parts) |-> stem_parts[i].text ])

\* line 314: {m["marker"]: m["idx"] for m in local_markers}; a later
\* fragment with the same digit overwrites the earlier one
MarkerPositions(local_markers) ==
    { [num |-> local_markers[j].marker, pos |-> local_markers[j].idx] :
        j \in { h \in 1..Len(local_markers) :
                  \A g \in (h + 1)..Len(local_markers) :
                      local_markers[g].marker # local_markers[h].marker } }

\* lines 327-332: the joined non-marker fragments strictly between midx
\* and next_idx
BodyText(range_blocks, midx, next_idx) ==
    LET InBody(b) == /\ midx < b.idx /\ b.idx < next_idx
                     /\ b.text \notin MarkerTexts
                     /\ b.text # <<>>
        body_parts == SelectSeq(range_blocks, InBody)
    IN  Join([ i \in 1..Len(body_parts) |-> body_parts[i].text ])

\* options for whichever marker digits are present, without the
\* requirement of the full set 1..4
MarkerOptionsAnySet(range_blocks, local_markers, end_idx) ==
    LET ordered == SortByPos(MarkerPositions(local_markers))
    IN  [ mi \in 1..Len(ordered) |->
            BodyText(range_blocks, ordered[mi].pos,
                     IF mi + 1 <= Len(ordered) THEN ordered[mi + 1].pos
                     ELSE end_idx + 1) ]

\* lines 312-333
MarkerOptions(range_blocks, local_markers, end_idx) ==
    LET marker_positions == MarkerPositions(local_markers)
    IN  IF local_markers # <<>>
           /\ \A k \in MarkerNums : \E m \in marker_positions : m.num = k
        THEN LET ordered == SortByPos(marker_positions)
             IN  [ mi \in 1..Len(ordered) |->
                     BodyText(range_blocks, ordered[mi].pos,
                              IF mi + 1 <= Len(ordered)
                              THEN ordered[mi + 1].pos
                              ELSE end_idx + 1) ]
        ELSE <<>>

StartIdx(i) == questions_meta[i].start_idx

\* lines 290-294
EndIdx(i) ==
    IF i + 1 <= Len(questions_meta)
    THEN questions_meta[i + 1].start_idx - 1
    ELSE Len(flat)

\* lines 287-333: stem and marker-based options of question qi
CarveSpan ==
    /\ pc = "span"
    /\ qi <= Len(questions_meta)
    /\ LET range_blocks  == RangeBlocks(StartIdx(qi), EndIdx(qi))
           local_markers == LocalMarkers(StartIdx(qi), EndIdx(qi))
       IN  /\ stem_text' = StemText(range_blocks, FirstMarkerIdx(local_markers))
           /\ options' = MarkerOptions(range_blocks, local_markers, EndIdx(qi))
    /\ pc' = IF options' = <<>> THEN "inline" ELSE "emit"
    /\ UNCHANGED <<text_blocks, flat, li, questions_meta, markers, qi, results,
                   akVars, vaVars, nzVars,
                   dsVars,
                   ngVars,
                   tgVars,
                   bpVars,
                   gpVars,
                   tfVars>>

\* lines 335-337
InlineFallback ==
    /\ pc = "inline"
    /\ stem_text' = TryExtractInlineOptions(stem_text).stem
    /\ options' = TryExtractInlineOptions(stem_text).options
    /\ pc' = "emit"
    /\ UNCHANGED <<text_blocks, flat, li, questions_meta, markers, qi, results,
                   akVars, vaVars, nzVars,
                   dsVars,
                   ngVars,
                   tgVars,
                   bpVars,
                   gpVars,
                   tfVars>>

\* line 297
Pages(i) ==
    LET range_blocks == RangeBlocks(StartIdx(i), EndIdx(i))
    IN  { range_blocks[j].page : j \in 1..Len(range_blocks) } \ {NoPage}

Min(S) == CHOOSE x \in S : \A y \in S : x <= y
Max(S) == CHOOSE x \in S : \A y \in S : x >= y

\* a check that lets every question through
StemNeverEmpty(stem) == FALSE

\* `if not stem_text` of line 339
StemIsEmpty(stem) == stem = <<>>

\* a dropped question that is taken up again instead of being left behind
SkipEmptyAgain ==
    /\ pc = "emit"
    /\ StemIsEmpty(stem_text)
    /\ pc' = "span"
    /\ UNCHANGED <<text_blocks, flat, li, questions_meta, markers, qi,
                   stem_text, options, results,
                   akVars, vaVars, nzVars,
                   dsVars,
                   ngVars,
                   tgVars,
                   bpVars,
                   gpVars,
                   tfVars>>

\* lines 339-340: the question has no stem and is dropped
SkipEmpty ==
    /\ pc = "emit"
    /\ StemIsEmpty(stem_text)
    /\ qi' = qi + 1
    /\ pc' = "span"
    /\ UNCHANGED <<text_blocks, flat, li, questions_meta, markers, stem_text,
                   options, results,
                   akVars, vaVars, nzVars,
                   dsVars,
                   ngVars,
                   tgVars,
                   bpVars,
                   gpVars,
                   tfVars>>

\* lines 342-350
Emit ==
    /\ pc = "emit"
    /\ ~StemIsEmpty(stem_text)
    /\ results' = Append(results,
           [paper_id        |-> PAPER_ID,
            question_number |-> questions_meta[qi].qnum,
            question_text   |-> stem_text,
            options         |-> options,
            page_start      |-> IF Pages(qi) # {} THEN Min(Pages(qi)) ELSE -1,
            page_end        |-> IF Pages(qi) # {} THEN Max(Pages(qi)) ELSE -1])
    /\ qi' = qi + 1
    /\ pc' = "span"
    /\ UNCHANGED <<text_blocks, flat, li, questions_meta, markers, stem_text,
                   options,
                   akVars, vaVars, nzVars,
                   dsVars,
                   ngVars,
                   tgVars,
                   bpVars,
                   gpVars,
                   tfVars>>

\* line 352
Return ==
    /\ pc = "span"
    /\ qi > Len(questions_meta)
    /\ pc' = "done"
    /\ UNCHANGED <<text_blocks, flat, li, questions_meta, markers, qi,
                   stem_text, options, results,
                   akVars, vaVars, nzVars,
                   dsVars,
                   ngVars,
                   tgVars,
                   bpVars,
                   gpVars,
                   tfVars>>

Next ==
    \/ Flatten
    \/ LocateQuestion
    \/ LocateMarker
    \/ LocateOther
    \/ SortMeta
    \/ CarveSpan
    \/ InlineFallback
    \/ SkipEmpty
    \/ Emit
    \/ Return

Spec == Init /\ [][Next]_vars

(***************************************************************************)
(* Vocabulary of the properties: facts about the span of question i that   *)
(* are read off the flattened input.                                       *)
(***************************************************************************)
Located == pc \in {"span", "inline", "emit", "done"}

SpanBlocks(i) == RangeBlocks(StartIdx(i), EndIdx(i))

\* the digits of the marker-only fragments of span i
SpanMarkerDigits(i) ==
    { DigitVal(SpanBlocks(i)[j].text[2]) :
        j \in { h \in 1..Len(SpanBlocks(i)) :
                  SpanBlocks(i)[h].text \in MarkerTexts } }

SpanHasAllMarkers(i) == SpanMarkerDigits(i) = MarkerNums

\* the space-joined text of every fragment of span i
SpanText(i) == Join([ j \in 1..Len(SpanBlocks(i)) |-> SpanBlocks(i)[j].text ])

\* the space-joined text of the fragments of span i that precede its first
\* marker-only fragment
PreMarkerText(i) ==
    LET blocks == SpanBlocks(i)
        Before(j) == \A h \in 1..j : blocks[h].text \notin MarkerTexts
    IN  Join([ j \in 1..Cardinality({ h \in 1..Len(blocks) : Before(h) }) |->
                 blocks[j].text ])

\* the positions of text at which the inline marker "(k)" stands
Occurrences(text, k) ==
    { p \in 1..(Len(text) - 2) :
        text[p] = "(" /\ text[p + 1] = DigitChar(k) /\ text[p + 2] = ")" }

InlineDigits(text) == { k \in MarkerNums : Occurrences(text, k) # {} }

FirstPos(text, k) == Min(Occurrences(text, k))

\* the first marker position after that of "(k)", or the end of the text
NextPos(text, k) ==
    Min({ FirstPos(text, j) : j \in { h \in MarkerNums :
              FirstPos(text, h) > FirstPos(text, k) } } \cup {Len(text) + 1})

\* C1: in a span with marker-only fragments for all four digits, options[k]
\* of the question about to be emitted is the body that follows the
\* fragment "(k)", whatever the physical order of the four markers.
C1_OptionsOrderedByMarkerDigit ==
    (pc = "emit" /\ stem_text # <<>> /\ SpanHasAllMarkers(qi)) =>
        /\ Len(options) = 4
        /\ \A k \in MarkerNums :
              LET pos  == MarkerPositions(
                              LocalMarkers(StartIdx(qi), EndIdx(qi)))
                  mine == (CHOOSE m \in pos : m.num = k).pos
                  next == Min({ m.pos : m \in { x \in pos : x.pos > mine } }
                              \cup {EndIdx(qi) + 1})
              IN  options[k] = BodyText(SpanBlocks(qi), mine, next)

\* C2: every returned record has 0 or exactly 4 options.
C2_OptionsLenZeroOrFour ==
    \A i \in 1..Len(results) : Len(results[i].options) \in {0, 4}

\* a single question whose span has marker-only fragments for some but not
\* all digits was emitted without options
C2_Witness ==
    /\ pc = "done"
    /\ Len(questions_meta) = 1
    /\ Len(results) = 1
    /\ SpanMarkerDigits(1) \notin {{}, MarkerNums}
    /\ results[1].options = <<>>

\* C3: in every returned record with 4 options, each option is non-empty
\* after trimming.
C3_FourOptionsNonEmpty ==
    \A i \in 1..Len(results) :
        Len(results[i].options) = 4 =>
            \A k \in 1..4 : Strip(results[i].options[k]) # <<>>

\* C4: when the span of an emitted question has neither the four
\* marker-only fragments nor a complete inline set, the question has no
\* options and its text is the joined text of every fragment of the span.
C4_NoOptionStemIsWholeSpan ==
    (/\ pc = "emit"
     /\ stem_text # <<>>
     /\ ~SpanHasAllMarkers(qi)
     /\ InlineDigits(SpanText(qi)) # MarkerNums) =>
        /\ options = <<>>
        /\ stem_text = SpanText(qi)

\* C5: when the span of an emitted question has no complete set of
\* marker-only fragments and the joined text of the whole span holds all
\* four inline markers, the question gets the four options of that text.
C5_InlineOverWholeSpan ==
    (/\ pc = "emit"
     /\ stem_text # <<>>
     /\ ~SpanHasAllMarkers(qi)
     /\ InlineDigits(SpanText(qi)) = MarkerNums) =>
        /\ Len(options) = 4
        /\ \A k \in MarkerNums :
              options[k] = Strip(Slice(SpanText(qi),
                                       FirstPos(SpanText(qi), k) + 3,
                                       NextPos(SpanText(qi), k) - 1))

\* C6: no two returned records have the same question_number.
C6_UniqueQuestionNumbers ==
    \A i, j \in 1..Len(results) :
        i # j => results[i].question_number # results[j].question_number

\* C7: every returned record has question_number >= 1.
C7_QuestionNumberPositive ==
    \A i \in 1..Len(results) : results[i].question_number >= 1

\* txt[from..to] consists of characters of the class cs only
AllIn(txt, from, to, cs) == \A h \in from..to : txt[h] \in cs

\* the label grammar, split at p1 <= ... <= p5: a leading Q (required or
\* optional), spaces, at most one ".", spaces, one or more digits, spaces,
\* at most one trailing punctuation character, and nothing else
LabelShape(txt, q_optional) ==
    \E p0 \in {0, 1} :
        /\ p0 <= Len(txt)
        /\ IF p0 = 1 THEN txt[1] = "Q" ELSE q_optional
        /\ \E p1 \in p0..Len(txt) :
            /\ AllIn(txt, p0 + 1, p1, Whitespace)
            /\ \E p2 \in { p \in {p1, p1 + 1} : p <= Len(txt) } :
                /\ AllIn(txt, p1 + 1, p2, {"."})
                /\ \E p3 \in p2..Len(txt) :
                    /\ AllIn(txt, p2 + 1, p3, Whitespace)
                    /\ \E p4 \in (p3 + 1)..Len(txt) :
                        /\ AllIn(txt, p3 + 1, p4, Digits)
                        /\ \E p5 \in p4..Len(txt) :
                            /\ AllIn(txt, p4 + 1, p5, Whitespace)
                            /\ Len(txt) - p5 <= 1
                            /\ AllIn(txt, p5 + 1, Len(txt), TrailingPunct)

IsQuestionStart(i) ==
    \E j \in 1..Len(questions_meta) : questions_meta[j].start_idx = i

\* C8 as stated: a fragment starts a question exactly when its trimmed text
\* is a label in which the leading Q is optional.
C8_StartIffOptionalQLabel ==
    Located =>
        \A i \in 1..Len(flat) :
            IsQuestionStart(i) <=> LabelShape(flat[i].text, TRUE)

\* C8 amended: a fragment starts a question exactly when its trimmed text
\* is a label with the leading Q: Q, spaces, at most one ".", spaces, a
\* number, spaces, at most one of ") . : -", and nothing else.
C8_StartIffQLabel ==
    Located =>
        \A i \in 1..Len(flat) :
            IsQuestionStart(i) <=> LabelShape(flat[i].text, FALSE)

\* a label with a Q and inner spaces started a question, and a label
\* without the Q did not
C8_Witness ==
    /\ pc = "done"
    /\ \E i \in 1..Len(flat) :
          flat[i].text = <<"5", ".">> /\ ~IsQuestionStart(i)
    /\ \E i \in 1..Len(flat) :
          flat[i].text = <<"Q", "1">> /\ IsQuestionStart(i)

\* the parser drops question i: nothing precedes its first marker-only
\* fragment, or the inline fallback finds the first of four inline markers
\* at the very start of that text
ExpectDropped(i) ==
    \/ PreMarkerText(i) = <<>>
    \/ /\ ~SpanHasAllMarkers(i)
       /\ InlineDigits(PreMarkerText(i)) = MarkerNums
       /\ \E k \in MarkerNums : 1 \in Occurrences(PreMarkerText(i), k)

Kept == SelectSeq([ i \in 1..Len(questions_meta) |-> i ],
                  LAMBDA i : ~ExpectDropped(i))

\* C9: every returned record has a question_text that is non-empty after
\* trimming, and the returned records are, in order, the detected questions
\* other than those with an empty stem.
C9_EmptyStemDropped ==
    /\ \A i \in 1..Len(results) : Strip(results[i].question_text) # <<>>
    /\ pc = "done" =>
          /\ Len(results) = Len(Kept)
          /\ \A i \in 1..Len(results) :
                results[i].question_number = questions_meta[Kept[i]].qnum

\* of two detected questions the first had an empty stem and only the
\* second was returned
C9_Witness ==
    /\ pc = "done"
    /\ Len(questions_meta) = 2
    /\ ExpectDropped(1)
    /\ Len(results) = 1
    /\ results[1].question_number = questions_meta[2].qnum
    /\ questions_meta[1].qnum # questions_meta[2].qnum

\* C10: when the text handed to the inline fallback holds all four inline
\* markers, option k is the trimmed text from just after the first "(k)" to
\* the next of the four first-occurrence positions (or the end), and the
\* stem is the trimmed text before the first of them.
C10_InlineOptionsByMarkerNumber ==
    [][(pc = "inline" /\ InlineDigits(stem_text) = MarkerNums) =>
          /\ Len(options') = 4
          /\ \A k \in MarkerNums :
                options'[k] = Strip(Slice(stem_text,
                                          FirstPos(stem_text, k) + 3,
                                          NextPos(stem_text, k) - 1))
          /\ stem_text' = Strip(Slice(stem_text, 1,
                    Min({ FirstPos(stem_text, k) : k \in MarkerNums }) - 1))
      ]_vars

\* the inline fallback produced four options from a text whose markers are
\* out of numeric order and in which one digit occurs twice
C10_Witness ==
    /\ pc = "emit"
    /\ ~SpanHasAllMarkers(qi)
    /\ Len(options) = 4
    /\ stem_text # <<>>
    /\ InlineDigits(PreMarkerText(qi)) = MarkerNums
    /\ FirstPos(PreMarkerText(qi), 3) < FirstPos(PreMarkerText(qi), 1)
    /\ \E k \in MarkerNums : Cardinality(Occurrences(PreMarkerText(qi), k)) > 1

\* the fragments of span i whose text is part of the emitted record: the
\* non-empty, non-marker fragments before the first marker-only fragment
\* and, when the four digits are present, those after the first marker
\* position the parser carves an option from
ContentBlocks(i) ==
    LET blocks == SpanBlocks(i)
        local  == LocalMarkers(StartIdx(i), EndIdx(i))
        first  == FirstMarkerIdx(local)
        carved == Min({ m.pos : m \in MarkerPositions(local) })
    IN  { b \in { blocks[j] : j \in 1..Len(blocks) } :
            /\ b.text # <<>>
            /\ b.text \notin MarkerTexts
            /\ \/ first = None
               \/ b.idx < first
               \/ SpanHasAllMarkers(i) /\ b.idx > carved }

ContentPages(i) == { b.page : b \in ContentBlocks(i) } \ {NoPage}

\* C11: page_start and page_end of every returned record are the least and
\* the greatest page over the fragments whose text is in the record, and
\* both are -1 when none of those fragments carries a page.
C11_PagesOfKeptFragments ==
    \A n \in 1..Len(results) :
        LET content_pages == ContentPages(Kept[n])
        IN  IF content_pages = {}
            THEN results[n].page_start = -1 /\ results[n].page_end = -1
            ELSE /\ results[n].page_start = Min(content_pages)
                 /\ results[n].page_end = Max(content_pages)

\* an upper bound on the steps parse() still has to take: the locate loop
\* visits each entry of flat once, the question loop visits each entry of
\* questions_meta once (carve, inline fallback, emit or skip), and neither
\* list grows while its loop runs
StepsLeft ==
    CASE pc = "flatten" -> 4 * Len(text_blocks) + 3
      [] pc = "locate"  -> (Len(flat) + 1 - li) + 3 * Len(flat) + 2
      [] pc = "span"    -> IF qi <= Len(questions_meta)
                           THEN 3 * (Len(questions_meta) + 1 - qi) + 1
                           ELSE 1
      [] pc = "inline"  -> 3 * (Len(questions_meta) + 1 - qi)
      [] pc = "emit"    -> 3 * (Len(questions_meta) + 1 - qi) - 1
      [] OTHER          -> 0

\* parse() has a statement to execute: the conditions of its loops and
\* branches cover every case
StepEnabled ==
    \/ pc = "flatten"
    \/ pc = "locate" /\ li <= Len(flat) + 1
    \/ pc = "span" /\ qi <= Len(questions_meta) + 1
    \/ pc = "inline"
    \/ pc = "emit" /\ qi <= Len(questions_meta)

\* C12: parse() terminates and returns its list for every input: until it
\* has returned it always has a next statement to execute, and every
\* statement strictly lowers the number of steps it has left, which never
\* falls below zero.
C12_ParseTerminates ==
    /\ [](pc # "done" => StepEnabled)
    /\ [](StepsLeft >= 0)
    /\ [][StepsLeft' < StepsLeft]_vars

C12_Witness ==
    /\ pc = "done"
    /\ questions_meta = <<>>
    /\ results = <<>>
    /\ Len(markers) >= 2
    /\ \E i \in 1..Len(flat) : flat[i].text = <<>>

\* the space-joined text of the fragments of span i from its first
\* marker-only fragment on that are not marker-only themselves
PostMarkerText(i) ==
    LET blocks == SpanBlocks(i)
        After(b) == /\ b.idx >= FirstMarkerIdx(LocalMarkers(StartIdx(i), EndIdx(i)))
                    /\ b.text \notin MarkerTexts
        rest == SelectSeq(blocks, After)
    IN  Join([ j \in 1..Len(rest) |-> rest[j].text ])

\* C24: in a span with marker-only fragments for all four digits no text
\* is lost: the stem of the record about to be emitted is the text before
\* the first marker fragment, and the option bodies together hold, once
\* each, the other fragments that are not bare markers.
C24_NoTextLost ==
    (pc = "emit" /\ ~StemIsEmpty(stem_text) /\ SpanHasAllMarkers(qi)) =>
        /\ stem_text = PreMarkerText(qi)
        /\ Join(options) = PostMarkerText(qi)

(***************************************************************************)
(* AnswerKeyExtractor (src/answer_key_extractor.py)                        *)
(*                                                                         *)
(* PATTERN_Q_NUMBER        = Q\s*(\d+)\s*[.)\-:]*\s*\((\d+)\)   IGNORECASE *)
(* PATTERN_NUM_ONLY        = (?:^|\n)\s*(\d+)\s*[.)\-:]*\s*\((\d+)\)       *)
(* PATTERN_ANSWER_SEQUENCE = \((\d+)\)                                     *)
(* Adjacent character classes are disjoint, so the greedy walk is the only *)
(* way an expression can match at a given index.                           *)
(***************************************************************************)
LineBreak == "\n"

\* \s of the expressions, and the characters str.strip() removes
Spaces == Whitespace \cup {LineBreak}

KeyPunct == {".", ")", "-", ":"}

NoGroups == [q |-> <<>>, a |-> <<>>, end |-> NoMatch]

\* \s*(\d+)\s*[.)\-:]*\s*\((\d+)\) matched from index i: the two groups and
\* the index just after the match, or NoGroups
AnswerTail(text, i) ==
    LET i1 == SkipClass(text, i, Spaces)
        i2 == SkipClass(text, i1, Digits)
        i3 == SkipClass(text, i2, Spaces)
        i4 == SkipClass(text, i3, KeyPunct)
        i5 == SkipClass(text, i4, Spaces)
        i6 == SkipClass(text, i5 + 1, Digits)
    IN  IF /\ i2 > i1
           /\ i5 <= Len(text) /\ text[i5] = "("
           /\ i6 > i5 + 1
           /\ i6 <= Len(text) /\ text[i6] = ")"
        THEN [q   |-> Slice(text, i1, i2 - 1),
              a   |-> Slice(text, i5 + 1, i6 - 1),
              end |-> i6 + 1]
        ELSE NoGroups

\* q_number_pattern matched at index i (re.IGNORECASE: Q or q)
PATTERN_Q_NUMBER(text, i) ==
    IF text[i] \in {"Q", "q"} THEN AnswerTail(text, i + 1) ELSE NoGroups

\* num_only_pattern matched at index i (re.MULTILINE: ^ is the start of
\* the text or of a line; the other branch consumes a line break)
PATTERN_NUM_ONLY(text, i) ==
    IF i = 1 \/ text[i - 1] = LineBreak \/ text[i] = LineBreak
    THEN AnswerTail(text, i)
    ELSE NoGroups

\* answer_sequence_pattern matched at index i
PATTERN_ANSWER_SEQUENCE(text, i) ==
    LET e == SkipClass(text, i + 1, Digits)
    IN  IF /\ text[i] = "("
           /\ e > i + 1
           /\ e <= Len(text) /\ text[e] = ")"
        THEN [q |-> <<>>, a |-> Slice(text, i + 1, e - 1), end |-> e + 1]
        ELSE NoGroups

MatchAt(pattern, text, i) ==
    CASE pattern = "q"   -> PATTERN_Q_NUMBER(text, i)
      [] pattern = "num" -> PATTERN_NUM_ONLY(text, i)
      [] OTHER           -> PATTERN_ANSWER_SEQUENCE(text, i)

\* pattern.findall(text) from index i on: the groups of the
\* non-overlapping matches, left to right
RECURSIVE FindAll(_, _, _)
FindAll(pattern, text, i) ==
    IF i > Len(text) THEN <<>>
    ELSE LET m == MatchAt(pattern, text, i)
         IN  IF m.end # NoMatch
             THEN <<[q |-> m.q, a |-> m.a]>> \o FindAll(pattern, text, m.end)
             ELSE FindAll(pattern, text, i + 1)

\* {} of Python
EmptyMap == <<>>

\* answers[q_num] = answer for each pair in turn: a later pair with the
\* same number overwrites the earlier one
AnswersOf(pairs) ==
    [ k \in { pairs[j].key : j \in 1..Len(pairs) } |->
        pairs[Max({ j \in 1..Len(pairs) : pairs[j].key = k })].val ]

\* lines 142-147, 167-175: (int(q_num_str), answer.strip()) per match
KeyedPairs(matches) ==
    [ j \in 1..Len(matches) |->
        [key |-> ToInt(matches[j].q), val |-> matches[j].a] ]

\* lines 126-149
TryExtractQPattern(text) ==
    LET matches == FindAll("q", text, 1)
    IN  IF matches = <<>> THEN EmptyMap ELSE AnswersOf(KeyedPairs(matches))

\* the bare-number strategy without the skip of question number 0
NumPatternKeepZero(text) ==
    LET matches == FindAll("num", text, 1)
    IN  IF matches = <<>> THEN EmptyMap ELSE AnswersOf(KeyedPairs(matches))

\* lines 151-177
TryExtractNumPattern(text) ==
    LET matches == FindAll("num", text, 1)
        NotZero(p) == p.key # 0
    IN  IF matches = <<>> THEN EmptyMap
        ELSE AnswersOf(SelectSeq(KeyedPairs(matches), NotZero))

\* line 192
MinSequence == 10

\* the sequence strategy without the threshold of line 192
SequenceAnyLength(text) ==
    LET matches == FindAll("seq", text, 1)
    IN  [ idx \in 1..Len(matches) |-> matches[idx].a ]

\* lines 179-199
TryExtractSequence(text) ==
    LET matches == FindAll("seq", text, 1)
    IN  IF Len(matches) < MinSequence THEN EmptyMap
        ELSE [ idx \in 1..Len(matches) |-> matches[idx].a ]

\* lines 109-122: the text of a block, '' for a block that is skipped
TextContent(text_obj) ==
    IF text_obj.kind = "absent" THEN <<>> ELSE text_obj.val

\* '\n'.join(combined)
RECURSIVE CombineTextBlocks(_)
CombineTextBlocks(blocks) ==
    IF blocks = <<>> THEN <<>>
    ELSE LET content == TextContent(Head(blocks).text)
             rest    == CombineTextBlocks(Tail(blocks))
         IN  IF content = <<>> THEN rest
             ELSE IF \A j \in 1..Len(Tail(blocks)) :
                        TextContent(Tail(blocks)[j].text) = <<>>
                  THEN content
                  ELSE content \o <<LineBreak>> \o rest

\* not combined_text.strip()
IsBlank(text) == \A i \in 1..Len(text) : text[i] \in Spaces

\* longest list of blocks given to the extractor
MaxBlocks == 3

\* texts of answer-key blocks: Q lines, bare lines, a line numbered 0,
\* runs of parenthesized answers, other text, blank and empty text
AkVocab ==
    {
      Str(<<"Q", "1", ".", " ", "(", "2", ")">>),
      Str(<<"q", "2", " ", "(", "3", ")">>),
      Obj(<<"Q", "0", " ", "(", "1", ")">>),
      Str(<<"1", ".", " ", "(", "2", ")">>),
      Str(<<"0", " ", "(", "3", ")">>),
      Obj(<<"2", " ", "(", "4", ")", "\n", "1", " ", "(", "3", ")">>),
      Str(<<"(", "1", ")", "(", "2", ")", "(", "3", ")", "(", "4", ")", "(", "1", ")">>),
      Str(<<"x", " ", "3", " ", "(", "2", ")">>),
      Str(<<" ">>),
      Str(<<>>),
      Str(<<"(", "1", "2", ")">>),
      Str(<<"0", " ", "(", "1", ")", "(", "2", ")", "(", "3", ")", "(", "4", ")">>),
      Absent }

AkInputs ==
    { [ i \in 1..Len(ts) |-> [text |-> ts[i]] ] : ts \in SeqsUpTo(AkVocab, MaxBlocks) }

\* extract_from_text_blocks(text_blocks) is called
AkInit ==
    /\ ak_blocks \in AkInputs
    /\ ak_pc = "combine"
    /\ combined_text = <<>>
    /\ answers = EmptyMap
    /\ strategy = "none"
    /\ ParserIdle /\ VaIdle /\ NzIdle /\ DsIdle /\ NgIdle /\ TgIdle /\ BpIdle /\ GpIdle /\ TfIdle

\* line 72
Combine ==
    /\ ak_pc = "combine"
    /\ combined_text' = CombineTextBlocks(ak_blocks)
    /\ ak_pc' = "q"
    /\ UNCHANGED <<ak_blocks, answers, strategy, parserVars, vaVars, nzVars,
                   dsVars,
                   ngVars,
                   tgVars,
                   bpVars,
                   gpVars,
                   tfVars>>

\* lines 74-76
ReturnNoText ==
    /\ ak_pc = "q"
    /\ IsBlank(combined_text)
    /\ answers' = EmptyMap
    /\ ak_pc' = "done"
    /\ UNCHANGED <<ak_blocks, combined_text, strategy, parserVars, vaVars,
                   nzVars,
                   dsVars,
                   ngVars,
                   tgVars,
                   bpVars,
                   gpVars,
                   tfVars>>

\* lines 79-82
TryQ ==
    /\ ak_pc = "q"
    /\ ~IsBlank(combined_text)
    /\ answers' = TryExtractQPattern(combined_text)
    /\ IF DOMAIN answers' # {}
       THEN ak_pc' = "done" /\ strategy' = "Q-number"
       ELSE ak_pc' = "num" /\ strategy' = strategy
    /\ UNCHANGED <<ak_blocks, combined_text, parserVars, vaVars, nzVars,
                   dsVars,
                   ngVars,
                   tgVars,
                   bpVars,
                   gpVars,
                   tfVars>>

\* the bare-number strategy followed by the sequence strategy whatever it
\* found
TryNumThenSequence ==
    /\ ak_pc = "num"
    /\ answers' = TryExtractNumPattern(combined_text)
    /\ ak_pc' = "sequence" /\ strategy' = strategy
    /\ UNCHANGED <<ak_blocks, combined_text, parserVars, vaVars, nzVars,
                   dsVars,
                   ngVars,
                   tgVars,
                   bpVars,
                   gpVars,
                   tfVars>>

\* lines 84-87
TryNum ==
    /\ ak_pc = "num"
    /\ answers' = TryExtractNumPattern(combined_text)
    /\ IF DOMAIN answers' # {}
       THEN ak_pc' = "done" /\ strategy' = "number"
       ELSE ak_pc' = "sequence" /\ strategy' = strategy
    /\ UNCHANGED <<ak_blocks, combined_text, parserVars, vaVars, nzVars,
                   dsVars,
                   ngVars,
                   tgVars,
                   bpVars,
                   gpVars,
                   tfVars>>

\* lines 89-95
TrySequence ==
    /\ ak_pc = "sequence"
    /\ answers' = TryExtractSequence(combined_text)
    /\ strategy' = IF DOMAIN answers' # {} THEN "sequence" ELSE strategy
    /\ ak_pc' = "done"
    /\ UNCHANGED <<ak_blocks, combined_text, parserVars, vaVars, nzVars,
                   dsVars,
                   ngVars,
                   tgVars,
                   bpVars,
                   gpVars,
                   tfVars>>

AkNext ==
    \/ Combine
    \/ ReturnNoText
    \/ TryQ
    \/ TryNum
    \/ TrySequence

AkSpec == AkInit /\ [][AkNext]_vars

(***************************************************************************)
(* Vocabulary of the extractor properties: what the three expressions      *)
(* match in the combined text, read off the text position by position.     *)
(***************************************************************************)
Extracted == ak_pc = "done"

\* index d starts a run of digits that closes a parenthesized number
AllDigits(text, from, to) == from <= to /\ AllIn(text, from, to, Digits)

\* the indexes of the "(" of the parenthesized numbers of the text
ParenGroups(text) ==
    { p \in 1..Len(text) :
        /\ text[p] = "("
        /\ \E e \in (p + 2)..Len(text) :
              text[e] = ")" /\ AllDigits(text, p + 1, e - 1) }

GroupDigits(text, p) ==
    LET e == CHOOSE e \in (p + 2)..Len(text) :
                text[e] = ")" /\ AllDigits(text, p + 1, e - 1)
    IN  Slice(text, p + 1, e - 1)

\* the k-th element of a set of indexes, ascending
Kth(S, k) == CHOOSE p \in S : Cardinality({ r \in S : r < p }) = k - 1

\* only whitespace separates index d from the start of its line, or from
\* a line break before it
AtLineStart(text, d) ==
    \/ AllIn(text, 1, d - 1, Spaces)
    \/ \E n \in 1..(d - 1) :
          text[n] = LineBreak /\ AllIn(text, n + 1, d - 1, Spaces)

\* the indexes where a question number followed by a parenthesized answer
\* begins
NumberedAt(text) ==
    { d \in 1..Len(text) :
        /\ text[d] \in Digits
        /\ d = 1 \/ text[d - 1] \notin Digits
        /\ AnswerTail(text, d).end # NoMatch }

\* ... at the start of a line: the matches of the bare-number expression
BareAt(text) == { d \in NumberedAt(text) : AtLineStart(text, d) }

\* ... after a Q or q: the matches of the Q-number expression
QAt(text) ==
    { d \in NumberedAt(text) :
        \E n \in 1..(d - 1) :
            text[n] \in {"Q", "q"} /\ AllIn(text, n + 1, d - 1, Spaces) }

KeyAt(text, d) == ToInt(AnswerTail(text, d).q)

IsEmptyMap(m) == DOMAIN m = {}

\* C13: extract_from_text_blocks returns the map of the first of the
\* strategies Q-number, bare-number, sequence whose map is non-empty, and
\* returns it unchanged.
C13_FirstNonEmptyStrategy ==
    Extracted =>
        LET q_map   == TryExtractQPattern(combined_text)
            num_map == TryExtractNumPattern(combined_text)
            seq_map == TryExtractSequence(combined_text)
        IN  answers = IF ~IsEmptyMap(q_map) THEN q_map
                      ELSE IF ~IsEmptyMap(num_map) THEN num_map
                      ELSE seq_map

\* the bare-number strategy wins although the sequence strategy would have
\* found a different, non-empty map
C13_Witness ==
    /\ Extracted
    /\ strategy = "number"
    /\ ~IsEmptyMap(TryExtractSequence(combined_text))
    /\ answers # TryExtractSequence(combined_text)
    /\ answers = TryExtractNumPattern(combined_text)

\* C14: the sequence numbering is returned only when neither the Q-number
\* expression nor the bare-number expression has any match in the combined
\* text.
C14_SequenceOnlyWithoutMatches ==
    (Extracted /\ strategy = "sequence") =>
        QAt(combined_text) = {} /\ BareAt(combined_text) = {}

\* C15: the sequence strategy gives the empty map for fewer than 10
\* parenthesized numbers, and for n >= 10 of them the keys 1..n with key k
\* mapped to the k-th of them in text order.
C15_SequenceNumbering ==
    ak_pc \in {"q", "num", "sequence", "done"} =>
        LET groups  == ParenGroups(combined_text)
            n       == Cardinality(groups)
            seq_map == TryExtractSequence(combined_text)
        IN  IF n < 10
            THEN IsEmptyMap(seq_map)
            ELSE /\ DOMAIN seq_map = 1..n
                 /\ \A k \in 1..n :
                       seq_map[k] = GroupDigits(combined_text, Kth(groups, k))

\* the sequence strategy has numbered exactly ten answers
C15_Witness ==
    /\ Extracted
    /\ strategy = "sequence"
    /\ Cardinality(ParenGroups(combined_text)) = 10
    /\ DOMAIN answers = 1..10

\* C16: the bare-number strategy never yields the key 0, and the matches
\* with another question number are kept: each such number is a key, mapped
\* to the answer of its last match.
C16_ZeroDiscardedOthersKept ==
    ak_pc \in {"q", "num", "sequence", "done"} =>
        LET bare    == BareAt(combined_text)
            num_map == TryExtractNumPattern(combined_text)
            kept    == { d \in bare : KeyAt(combined_text, d) # 0 }
        IN  /\ 0 \notin DOMAIN num_map
            /\ DOMAIN num_map = { KeyAt(combined_text, d) : d \in kept }
            /\ \A d \in kept :
                  (\A r \in kept : KeyAt(combined_text, r) = KeyAt(combined_text, d)
                                      => r <= d)
                  => num_map[KeyAt(combined_text, d)]
                        = AnswerTail(combined_text, d).a

\* the bare-number strategy has dropped a line numbered 0 and kept another
C16_Witness ==
    /\ Extracted
    /\ strategy = "number"
    /\ \E d \in BareAt(combined_text) : KeyAt(combined_text, d) = 0
    /\ \E d \in BareAt(combined_text) :
          /\ KeyAt(combined_text, d) # 0
          /\ KeyAt(combined_text, d) \in DOMAIN answers

\* C25: every key of the map extract_from_text_blocks returns is a
\* positive integer, whichever strategy produced the map.
C25_KeysPositive ==
    Extracted => \A k \in DOMAIN answers : k >= 1

(***************************************************************************)
(* AnswerKeyExtractor.validate_answers (lines 222-255)                     *)
(***************************************************************************)
IntKey(n) == [kind |-> "int", val |-> n]
StrKey(t) == [kind |-> "str", val |-> t]

Signs == {"+", "-"}

\* int(answer) does not raise ValueError: surrounding whitespace, an
\* optional sign, then digits only
ParsesAsInt(answer) ==
    LET s     == Slice(answer,
                       SkipClass(answer, 1, Spaces),
                       Len(answer))
        body  == IF s # <<>> /\ s[1] \in Signs THEN Tail(s) ELSE s
        last  == SkipClass(body, 1, Digits)
    IN  /\ last > 1
        /\ AllIn(body, last, Len(body), Spaces)

\* `not isinstance(q_num, int) or q_num < 1` of line 245
InvalidNumber(q_num) == IF q_num.kind # "int" THEN TRUE ELSE q_num.val < 1

\* most entries of a map given to validate_answers
MaxEntries == 2

VaKeys == {IntKey(-1), IntKey(0), IntKey(1), IntKey(2), StrKey(<<"1">>)}

VaValues == {<<"2">>, <<" ", "1", "4", " ">>, <<"-", "3">>, <<"x">>, <<>>}

\* maps as their entries in iteration order; the keys of a map are distinct
VaInputs ==
    { es \in SeqsUpTo([key : VaKeys, val : VaValues], MaxEntries) :
        \A i, j \in 1..Len(es) : i # j => es[i].key # es[j].key }

\* expected_count: None (0 here is as falsy as None) or a number
ExpectedCounts == {0, 1, 2}

\* validate_answers(answers, expected_count) is called
VaInit ==
    /\ va_answers \in VaInputs
    /\ expected_count \in ExpectedCounts
    /\ va_pc = "check"
    /\ va_i = 1
    /\ va_result = FALSE
    /\ ParserIdle /\ AkIdle /\ NzIdle /\ DsIdle /\ NgIdle /\ TgIdle /\ BpIdle /\ GpIdle /\ TfIdle

\* lines 233-235
RejectNoAnswers ==
    /\ va_pc = "check"
    /\ va_answers = <<>>
    /\ va_result' = FALSE
    /\ va_pc' = "done"
    /\ UNCHANGED <<va_answers, expected_count, va_i, parserVars, akVars,
                   nzVars,
                   dsVars,
                   ngVars,
                   tgVars,
                   bpVars,
                   gpVars,
                   tfVars>>

\* lines 239-243
RejectAnswer ==
    /\ va_pc = "check"
    /\ va_i <= Len(va_answers)
    /\ ~ParsesAsInt(va_answers[va_i].val)
    /\ va_result' = FALSE
    /\ va_pc' = "done"
    /\ UNCHANGED <<va_answers, expected_count, va_i, parserVars, akVars,
                   nzVars,
                   dsVars,
                   ngVars,
                   tgVars,
                   bpVars,
                   gpVars,
                   tfVars>>

\* lines 245-247: the warning is logged and the loop goes on
SkipInvalidNumber ==
    /\ va_pc = "check"
    /\ va_i <= Len(va_answers)
    /\ ParsesAsInt(va_answers[va_i].val)
    /\ InvalidNumber(va_answers[va_i].key)
    /\ va_i' = va_i + 1
    /\ UNCHANGED <<va_answers, expected_count, va_pc, va_result, parserVars,
                   akVars, nzVars,
                   dsVars,
                   ngVars,
                   tgVars,
                   bpVars,
                   gpVars,
                   tfVars>>

\* lines 238-247 for an entry that passes both tests
AcceptEntry ==
    /\ va_pc = "check"
    /\ va_i <= Len(va_answers)
    /\ ParsesAsInt(va_answers[va_i].val)
    /\ ~InvalidNumber(va_answers[va_i].key)
    /\ va_i' = va_i + 1
    /\ UNCHANGED <<va_answers, expected_count, va_pc, va_result, parserVars,
                   akVars, nzVars,
                   dsVars,
                   ngVars,
                   tgVars,
                   bpVars,
                   gpVars,
                   tfVars>>

\* lines 250-255: the count differs, which is only logged
PassCountMismatch ==
    /\ va_pc = "check"
    /\ va_answers # <<>>
    /\ va_i > Len(va_answers)
    /\ expected_count # 0 /\ Len(va_answers) # expected_count
    /\ va_result' = TRUE
    /\ va_pc' = "done"
    /\ UNCHANGED <<va_answers, expected_count, va_i, parserVars, akVars,
                   nzVars,
                   dsVars,
                   ngVars,
                   tgVars,
                   bpVars,
                   gpVars,
                   tfVars>>

\* lines 250-255: no count is expected, or the count agrees
Pass ==
    /\ va_pc = "check"
    /\ va_answers # <<>>
    /\ va_i > Len(va_answers)
    /\ expected_count = 0 \/ Len(va_answers) = expected_count
    /\ va_result' = TRUE
    /\ va_pc' = "done"
    /\ UNCHANGED <<va_answers, expected_count, va_i, parserVars, akVars,
                   nzVars,
                   dsVars,
                   ngVars,
                   tgVars,
                   bpVars,
                   gpVars,
                   tfVars>>

VaNext ==
    \/ RejectNoAnswers
    \/ RejectAnswer
    \/ SkipInvalidNumber
    \/ AcceptEntry
    \/ PassCountMismatch
    \/ Pass

VaSpec == VaInit /\ [][VaNext]_vars

\* C17: validate_answers returns True only if every value parses as an
\* integer and every key is a positive integer.
C17_ValidOnlyWithPositiveKeys ==
    (va_pc = "done" /\ va_result) =>
        \A i \in 1..Len(va_answers) :
            /\ ParsesAsInt(va_answers[i].val)
            /\ va_answers[i].key.kind = "int"
            /\ va_answers[i].key.val >= 1

(***************************************************************************)
(* normalize_text (src/src/components/text_normalizer.py)                  *)
(*                                                                         *)
(* A character outside ASCII is written as its code point: "U+2212" is the *)
(* minus sign, "U+00D7" the multiplication sign.  Each expression is       *)
(* matched at an index by the only walk its greedy quantifiers allow; the  *)
(* result is the index just after the match and the replacement text.      *)
(***************************************************************************)
UMinus == "U+2212"

\* _UNICODE_REPLACEMENTS, lines 19-29
UnicodeReplacement(c) ==
    CASE c = UMinus    -> "-"
      [] c = "U+1D454" -> "g"
      [] c = "U+1D447" -> "T"
      [] c = "U+1D445" -> "R"
      [] c = "U+1D703" -> "U+03B8"
      [] c = "U+1D70B" -> "U+03C0"
      [] c = "U+1D43F" -> "L"
      [] c = "U+1D440" -> "M"
      [] c = "U+1D461" -> "t"
      [] OTHER         -> c

\* [A-Za-z]
AsciiLetters ==
    { "a", "b", "c", "d", "e", "f", "g", "h", "i", "j", "k", "l", "m",
      "n", "o", "p", "q", "r", "s", "t", "u", "v", "w", "x", "y", "z",
      "A", "B", "C", "D", "E", "F", "G", "H", "I", "J", "K", "L", "M",
      "N", "O", "P", "Q", "R", "S", "T", "U", "V", "W", "X", "Y", "Z" }

\* the letters outside ASCII that the texts here can hold
OtherLetters ==
    {"U+1D454", "U+1D447", "U+1D445", "U+1D703", "U+1D70B", "U+1D43F",
     "U+1D440", "U+1D461", "U+03B8", "U+03C0", "U+03A9"}

\* \w
WordChars == Digits \cup AsciiLetters \cup OtherLetters \cup {"_"}

\* the character at index i, "" outside the text
CharAt(text, i) == IF 1 <= i /\ i <= Len(text) THEN text[i] ELSE ""

\* \b at index i: exactly one of the characters around it is a word
\* character
WordBoundary(text, i) ==
    (CharAt(text, i - 1) \in WordChars) # (CharAt(text, i) \in WordChars)

\* text.startswith(word, i)
StartsWith(text, i, word) ==
    /\ i + Len(word) - 1 <= Len(text)
    /\ \A h \in 1..Len(word) : text[i + h - 1] = word[h]

\* (?:\.\d+)? from index i: the index just after it
OptFraction(text, i) ==
    IF CharAt(text, i) = "." /\ CharAt(text, i + 1) \in Digits
    THEN SkipClass(text, i + 1, Digits)
    ELSE i

MinusSigns == {"-", UMinus}

NonZeroDigits == Digits \ {"0"}

NoSub == [end |-> NoMatch, rep |-> <<>>]

\* the first word of the alternation that the text has at index i, <<>>
\* when there is none
RECURSIVE FirstWordAt(_, _, _)
FirstWordAt(words, text, i) ==
    IF words = <<>> THEN <<>>
    ELSE IF StartsWith(text, i, Head(words)) THEN Head(words)
    ELSE FirstWordAt(Tail(words), text, i)

\* _DECIMAL_PATTERN = (\d)\s*\.\s*(\d) -> \1.\2
DECIMAL_PATTERN(text, i) ==
    LET a == SkipClass(text, i + 1, Spaces)
        b == SkipClass(text, a + 1, Spaces)
    IN  IF /\ text[i] \in Digits
           /\ CharAt(text, a) = "."
           /\ CharAt(text, b) \in Digits
        THEN [end |-> b + 1, rep |-> <<text[i], ".", text[b]>>]
        ELSE NoSub

\* _UNIT_PATTERN = (\d(?:\.\d+)?)\s*([A-Za-z](?:[A-Za-z])?)\b -> "value unit"
UNIT_PATTERN(text, i) ==
    LET f == OptFraction(text, i + 1)
        a == SkipClass(text, f, Spaces)
        l == SkipClass(text, a, AsciiLetters)
    IN  IF /\ text[i] \in Digits
           /\ l - a \in {1, 2}
           /\ CharAt(text, l) \notin WordChars
        THEN [end |-> l,
              rep |-> Slice(text, i, f - 1) \o <<" ">> \o Slice(text, a, l - 1)]
        ELSE NoSub

\* the unit whitelist of line 44
FractionUnits ==
    <<<<"m">>, <<"R">>, <<"N">>, <<"J">>, <<"k", "g">>, <<"L">>, <<"C">>,
      <<"V">>, <<"A">>, <<"T">>, <<"H">>, <<"F">>>>

\* _FRACTION_BEFORE_UNIT_PATTERN =
\*   \b([1-9])\s+([1-9])\s+(m|R|N|J|kg|L|C|V|A|T|H|F)\b -> "num/den unit"
FRACTION_BEFORE_UNIT_PATTERN(text, i) ==
    LET a    == SkipClass(text, i + 1, Spaces)
        b    == SkipClass(text, a + 1, Spaces)
        unit == FirstWordAt(FractionUnits, text, b)
    IN  IF /\ text[i] \in NonZeroDigits
           /\ WordBoundary(text, i)
           /\ a > i + 1
           /\ CharAt(text, a) \in NonZeroDigits
           /\ b > a + 1
           /\ unit # <<>>
           /\ WordBoundary(text, b + Len(unit))
        THEN [end |-> b + Len(unit),
              rep |-> <<text[i], "/", text[a], " ">> \o unit]
        ELSE NoSub

\* _STANDALONE_FRACTION_PATTERN =
\*   \b([1-9]\d?)\s+([1-9]\d?)\b(?=\s*$|\s*[,;:)]) -> "num/den"
STANDALONE_FRACTION_PATTERN(text, i) ==
    LET n_end == IF CharAt(text, i + 1) \in Digits THEN i + 2 ELSE i + 1
        a     == SkipClass(text, n_end, Spaces)
        d_end == IF CharAt(text, a + 1) \in Digits THEN a + 2 ELSE a + 1
        ahead == SkipClass(text, d_end, Spaces)
    IN  IF /\ text[i] \in NonZeroDigits
           /\ WordBoundary(text, i)
           /\ a > n_end
           /\ CharAt(text, a) \in NonZeroDigits
           /\ WordBoundary(text, d_end)
           /\ ahead > Len(text) \/ text[ahead] \in {",", ";", ":", ")"}
        THEN [end |-> d_end,
              rep |-> Slice(text, i, n_end - 1) \o <<"/">>
                         \o Slice(text, a, d_end - 1)]
        ELSE NoSub

\* _SCI_NOTATION_PATTERN =
\*   (\d+(?:\.\d+)?)\s*[x U+00D7]\s*10\s*(?:\^\s*)?(\d+), re.IGNORECASE
\*   -> "\1 x 10^\2"
SCI_NOTATION_PATTERN(text, i) ==
    LET d  == SkipClass(text, i, Digits)
        f  == OptFraction(text, d)
        a  == SkipClass(text, f, Spaces)
        b  == SkipClass(text, a + 1, Spaces)
        c  == SkipClass(text, b + 2, Spaces)
        c2 == IF CharAt(text, c) = "^" THEN SkipClass(text, c + 1, Spaces)
              ELSE c
        e  == SkipClass(text, c2, Digits)
    IN  IF /\ d > i
           /\ CharAt(text, a) \in {"x", "X", "U+00D7"}
           /\ StartsWith(text, b, <<"1", "0">>)
           /\ e > c2
        THEN [end |-> e,
              rep |-> Slice(text, i, f - 1) \o <<" ", "x", " ", "1", "0", "^">>
                         \o Slice(text, c2, e - 1)]
        ELSE NoSub

\* _TEN_EXP_PATTERN = 10\s*([- U+2212])\s*(\d+) -> "10^-\2"
TEN_EXP_PATTERN(text, i) ==
    LET a == SkipClass(text, i + 2, Spaces)
        b == SkipClass(text, a + 1, Spaces)
        e == SkipClass(text, b, Digits)
    IN  IF /\ StartsWith(text, i, <<"1", "0">>)
           /\ CharAt(text, a) \in MinusSigns
           /\ e > b
        THEN [end |-> e,
              rep |-> <<"1", "0", "^", "-">> \o Slice(text, b, e - 1)]
        ELSE NoSub

\* the units of line 58
ExponentUnits ==
    <<<<"m">>, <<"s">>, <<"k", "g">>, <<"N">>, <<"J">>, <<"W">>, <<"H", "z">>,
      <<"P", "a">>, <<"C">>, <<"V">>, <<"F">>, <<"U+03A9">>, <<"o", "h", "m">>>>

\* _UNIT_EXP_PATTERN =
\*   (m|s|kg|N|J|W|Hz|Pa|C|V|F|U+03A9|ohm)\s+([- U+2212])\s*(\d+) -> "\1^-\3"
UNIT_EXP_PATTERN(text, i) ==
    LET unit == FirstWordAt(ExponentUnits, text, i)
        u    == i + Len(unit)
        a    == SkipClass(text, u, Spaces)
        b    == SkipClass(text, a + 1, Spaces)
        e    == SkipClass(text, b, Digits)
    IN  IF /\ unit # <<>>
           /\ a > u
           /\ CharAt(text, a) \in MinusSigns
           /\ e > b
        THEN [end |-> e, rep |-> unit \o <<"^", "-">> \o Slice(text, b, e - 1)]
        ELSE NoSub

\* the expression of line 173 = \s+[U+2212 -]\s+(\d+) -> "^-\1"
BRACKET_EXP_PATTERN(text, i) ==
    LET a == SkipClass(text, i, Spaces)
        b == SkipClass(text, a + 1, Spaces)
        e == SkipClass(text, b, Digits)
    IN  IF /\ a > i
           /\ CharAt(text, a) \in MinusSigns
           /\ b > a + 1
           /\ e > b
        THEN [end |-> e, rep |-> <<"^", "-">> \o Slice(text, b, e - 1)]
        ELSE NoSub

\* the function names of line 68, in the order of the alternation
FuncNames ==
    <<<<"s", "i", "n">>, <<"c", "o", "s">>, <<"t", "a", "n">>,
      <<"c", "o", "t">>, <<"s", "e", "c">>, <<"c", "o", "s", "e", "c">>>>

\* \s+([- U+2212]?\d+(?:\.\d+)?) from index u, after the function name
FuncArg(text, u) ==
    LET a == SkipClass(text, u, Spaces)
        s == IF CharAt(text, a) \in MinusSigns THEN a + 1 ELSE a
        d == SkipClass(text, s, Digits)
    IN  IF a > u /\ d > s
        THEN [from |-> a, end |-> OptFraction(text, d)]
        ELSE [from |-> a, end |-> NoMatch]

\* _FUNC_ARG_PATTERN =
\*   \b(sin|cos|tan|cot|sec|cosec)\s+([- U+2212]?\d+(?:\.\d+)?) -> "func(arg)"
\* the first name of the alternation after which the argument matches
FUNC_ARG_PATTERN(text, i) ==
    LET Fits(k) == /\ StartsWith(text, i, FuncNames[k])
                   /\ FuncArg(text, i + Len(FuncNames[k])).end # NoMatch
        fitting == { k \in 1..Len(FuncNames) : Fits(k) }
    IN  IF WordBoundary(text, i) /\ fitting # {}
        THEN LET func == FuncNames[Min(fitting)]
                 arg  == FuncArg(text, i + Len(func))
             IN  [end |-> arg.end,
                  rep |-> func \o <<"(">> \o Slice(text, arg.from, arg.end - 1)
                             \o <<")">>]
        ELSE NoSub

\* _PERCENT_PATTERN = (\d(?:\.\d+)?)\s*% -> "\1%"
PERCENT_PATTERN(text, i) ==
    LET f == OptFraction(text, i + 1)
        a == SkipClass(text, f, Spaces)
    IN  IF text[i] \in Digits /\ CharAt(text, a) = "%"
        THEN [end |-> a + 1, rep |-> Slice(text, i, f - 1) \o <<"%">>]
        ELSE NoSub

\* _MULTIPLE_SPACES = \s{2,} -> " "
MULTIPLE_SPACES(text, i) ==
    LET e == SkipClass(text, i, Spaces)
    IN  IF e >= i + 2 THEN [end |-> e, rep |-> <<" ">>] ELSE NoSub

\* the index of the first "]" after the "[" at index i that `.*?` can
\* reach (`.` does not cross a line break), or NoMatch
RECURSIVE ClosingBracket(_, _)
ClosingBracket(text, j) ==
    IF j > Len(text) \/ text[j] = LineBreak THEN NoMatch
    ELSE IF text[j] = "]" THEN j
    ELSE ClosingBracket(text, j + 1)

RECURSIVE Sub(_, _, _)

\* _DIMENSIONAL_FORMULA_PATTERN = \[(.*?)\] -> "[" process_bracket "]"
DIMENSIONAL_FORMULA_PATTERN(text, i) ==
    LET j == IF text[i] = "[" THEN ClosingBracket(text, i + 1) ELSE NoMatch
    IN  IF j # NoMatch
        THEN [end |-> j + 1,
              rep |-> <<"[">> \o Sub("bracket_exp", Slice(text, i + 1, j - 1), 1)
                         \o <<"]">>]
        ELSE NoSub

SubAt(pattern, text, i) ==
    CASE pattern = "decimal"     -> DECIMAL_PATTERN(text, i)
      [] pattern = "unit"        -> UNIT_PATTERN(text, i)
      [] pattern = "fraction"    -> FRACTION_BEFORE_UNIT_PATTERN(text, i)
      [] pattern = "standalone"  -> STANDALONE_FRACTION_PATTERN(text, i)
      [] pattern = "sci"         -> SCI_NOTATION_PATTERN(text, i)
      [] pattern = "ten_exp"     -> TEN_EXP_PATTERN(text, i)
      [] pattern = "unit_exp"    -> UNIT_EXP_PATTERN(text, i)
      [] pattern = "bracket_exp" -> BRACKET_EXP_PATTERN(text, i)
      [] pattern = "dimensional" -> DIMENSIONAL_FORMULA_PATTERN(text, i)
      [] pattern = "func_arg"    -> FUNC_ARG_PATTERN(text, i)
      [] pattern = "percent"     -> PERCENT_PATTERN(text, i)
      [] OTHER                   -> MULTIPLE_SPACES(text, i)

\* pattern.sub(repl, text) from index i on: the matches are replaced left
\* to right, the search going on just after each match
Sub(pattern, text, i) ==
    IF i > Len(text) THEN <<>>
    ELSE LET m == SubAt(pattern, text, i)
         IN  IF m.end # NoMatch
             THEN m.rep \o Sub(pattern, text, m.end)
             ELSE <<text[i]>> \o Sub(pattern, text, i + 1)

\* lines 32-35
NormalizeUnicode(text) ==
    [ i \in 1..Len(text) |-> UnicodeReplacement(text[i]) ]

\* lines 77-89: the substitution is repeated until the text stops changing
RECURSIVE NormalizeDecimals(_)
NormalizeDecimals(text) ==
    LET cur == Sub("decimal", text, 1)
    IN  IF cur = text THEN text ELSE NormalizeDecimals(cur)

\* lines 97-108
NormalizeUnits(text) == Sub("unit", text, 1)

\* lines 111-129
NormalizeSimpleFractions(text) ==
    Sub("standalone", Sub("fraction", text, 1), 1)

\* lines 132-145
NormalizeExponents(text) ==
    LET t == [ i \in 1..Len(text) |->
                 IF text[i] = UMinus THEN "-" ELSE text[i] ]
    IN  Sub("unit_exp", Sub("ten_exp", Sub("sci", t, 1), 1), 1)

\* lines 162-176
NormalizeDimensionalFormulas(text) == Sub("dimensional", text, 1)

\* lines 148-159
NormalizeFuncArgs(text) == Sub("func_arg", text, 1)

\* lines 92-94
NormalizePercents(text) == Sub("percent", text, 1)

\* str.strip()
StripSpaces(text) ==
    LET from == SkipClass(text, 1, Spaces)
        to   == CHOOSE j \in 0..Len(text) :
                   /\ j = 0 \/ text[j] \notin Spaces
                   /\ \A h \in (j + 1)..Len(text) : text[h] \in Spaces
    IN  Slice(text, from, to)

\* lines 182-184
CollapseSpaces(text) == StripSpaces(Sub("spaces", text, 1))

\* most pieces a free input is put together from
MaxPieces == 3

\* pieces of text the rewriting steps react to
NzPieces ==
    {
      <<"1", "0">>,
      <<"-", "1", "0">>,
      <<" ", "-", "3">>,
      <<"0">>,
      <<" ", ".", " ">>,
      <<"3", " ", "0">>,
      <<" ", "m">>,
      <<"2", " ", "9">>,
      <<"m", " ", "s">>,
      <<"[", "L", " ", "-", " ", "2", "]">>,
      <<" ", "%">>,
      <<"c", "o", "s">>,
      <<"U+2212", "2">>,
      <<"x", " ", "1", "0", " ", "2">> }

\* the concatenations of at most MaxPieces pieces
NzFreeInputs == { Flat(ps) : ps \in SeqsUpTo(NzPieces, MaxPieces) }

\* decimal numbers written with or without spaces around the point and
\* between the digits, with or without a unit
NzDecimalInputs ==
    { <<d1>> \o s1 \o <<".">> \o s2 \o <<"3">> \o s3 \o <<d3>> \o unit :
        d1 \in {"0", "2"}, s1 \in {<<>>, <<" ">>}, s2 \in {<<>>, <<" ">>},
        s3 \in {<<>>, <<" ">>}, d3 \in {"0", "5"},
        unit \in {<<>>, <<" ", "m">>, <<" ", " ", " ", "m">>} }

NzNumbers == {<<"2">>, <<"2", "0">>, <<"4", ".", "5">>}

\* a function name and a number: "f n", "f -n" and "f(n)", "f(-n)"
NzFuncInputs ==
    { FuncNames[k] \o open \o sign \o n \o (IF open = <<"(">> THEN <<")">> ELSE <<>>) :
        k \in 1..Len(FuncNames), open \in {<<" ">>, <<"(">>},
        sign \in {<<>>, <<"-">>}, n \in NzNumbers }

NzInputs == NzFreeInputs \cup NzDecimalInputs \cup NzFuncInputs

\* normalize_text(text) is called
NzInit ==
    /\ nz_input \in NzInputs
    /\ nz_text = nz_input
    /\ nz_pc = "unicode"
    /\ nz_call = 1
    /\ nz_once = <<>>
    /\ ParserIdle /\ AkIdle /\ VaIdle /\ DsIdle /\ NgIdle /\ TgIdle /\ BpIdle /\ GpIdle /\ TfIdle

\* lines 189-190
ReturnUntouched ==
    /\ nz_pc = "unicode"
    /\ nz_text = <<>>
    /\ nz_pc' = "return"
    /\ UNCHANGED <<nz_input, nz_text, nz_call, nz_once, parserVars, akVars,
                   vaVars,
                   dsVars,
                   ngVars,
                   tgVars,
                   bpVars,
                   gpVars,
                   tfVars>>

\* line 192
StepUnicode ==
    /\ nz_pc = "unicode"
    /\ nz_text # <<>>
    /\ nz_text' = NormalizeUnicode(nz_text)
    /\ nz_pc' = "decimals"
    /\ UNCHANGED <<nz_input, nz_call, nz_once, parserVars, akVars, vaVars,
                   dsVars,
                   ngVars,
                   tgVars,
                   bpVars,
                   gpVars,
                   tfVars>>

\* line 193
StepDecimals ==
    /\ nz_pc = "decimals"
    /\ nz_text' = NormalizeDecimals(nz_text)
    /\ nz_pc' = "units"
    /\ UNCHANGED <<nz_input, nz_call, nz_once, parserVars, akVars, vaVars,
                   dsVars,
                   ngVars,
                   tgVars,
                   bpVars,
                   gpVars,
                   tfVars>>

\* line 194
StepUnits ==
    /\ nz_pc = "units"
    /\ nz_text' = NormalizeUnits(nz_text)
    /\ nz_pc' = "fractions"
    /\ UNCHANGED <<nz_input, nz_call, nz_once, parserVars, akVars, vaVars,
                   dsVars,
                   ngVars,
                   tgVars,
                   bpVars,
                   gpVars,
                   tfVars>>

\* line 195
StepFractions ==
    /\ nz_pc = "fractions"
    /\ nz_text' = NormalizeSimpleFractions(nz_text)
    /\ nz_pc' = "exponents"
    /\ UNCHANGED <<nz_input, nz_call, nz_once, parserVars, akVars, vaVars,
                   dsVars,
                   ngVars,
                   tgVars,
                   bpVars,
                   gpVars,
                   tfVars>>

\* line 196
StepExponents ==
    /\ nz_pc = "exponents"
    /\ nz_text' = NormalizeExponents(nz_text)
    /\ nz_pc' = "dimensional"
    /\ UNCHANGED <<nz_input, nz_call, nz_once, parserVars, akVars, vaVars,
                   dsVars,
                   ngVars,
                   tgVars,
                   bpVars,
                   gpVars,
                   tfVars>>

\* line 197
StepDimensional ==
    /\ nz_pc = "dimensional"
    /\ nz_text' = NormalizeDimensionalFormulas(nz_text)
    /\ nz_pc' = "func_args"
    /\ UNCHANGED <<nz_input, nz_call, nz_once, parserVars, akVars, vaVars,
                   dsVars,
                   ngVars,
                   tgVars,
                   bpVars,
                   gpVars,
                   tfVars>>

\* line 198
StepFuncArgs ==
    /\ nz_pc = "func_args"
    /\ nz_text' = NormalizeFuncArgs(nz_text)
    /\ nz_pc' = "percents"
    /\ UNCHANGED <<nz_input, nz_call, nz_once, parserVars, akVars, vaVars,
                   dsVars,
                   ngVars,
                   tgVars,
                   bpVars,
                   gpVars,
                   tfVars>>

\* line 199
StepPercents ==
    /\ nz_pc = "percents"
    /\ nz_text' = NormalizePercents(nz_text)
    /\ nz_pc' = "spaces"
    /\ UNCHANGED <<nz_input, nz_call, nz_once, parserVars, akVars, vaVars,
                   dsVars,
                   ngVars,
                   tgVars,
                   bpVars,
                   gpVars,
                   tfVars>>

\* lines 200-201
StepCollapse ==
    /\ nz_pc = "spaces"
    /\ nz_text' = CollapseSpaces(nz_text)
    /\ nz_pc' = "return"
    /\ UNCHANGED <<nz_input, nz_call, nz_once, parserVars, akVars, vaVars,
                   dsVars,
                   ngVars,
                   tgVars,
                   bpVars,
                   gpVars,
                   tfVars>>

\* normalize_text is called on the text it has just returned
NormalizeAgain ==
    /\ nz_pc = "return"
    /\ nz_call = 1
    /\ nz_once' = nz_text
    /\ nz_call' = 2
    /\ nz_pc' = "unicode"
    /\ UNCHANGED <<nz_input, nz_text, parserVars, akVars, vaVars,
                   dsVars,
                   ngVars,
                   tgVars,
                   bpVars,
                   gpVars,
                   tfVars>>

NzNext ==
    \/ ReturnUntouched
    \/ StepUnicode
    \/ StepDecimals
    \/ StepUnits
    \/ StepFractions
    \/ StepExponents
    \/ StepDimensional
    \/ StepFuncArgs
    \/ StepPercents
    \/ StepCollapse
    \/ NormalizeAgain

NzSpec == NzInit /\ [][NzNext]_vars

(***************************************************************************)
(* Vocabulary of the normalizer properties                                 *)
(***************************************************************************)
\* normalize_text(nz_input) has returned: nz_once is its result
NormalizedOnce == nz_call = 2

\* normalize_text(normalize_text(nz_input)) has returned: nz_text is its
\* result
NormalizedTwice == nz_call = 2 /\ nz_pc = "return"

\* C18: normalize_text(normalize_text(s)) = normalize_text(s).
C18_Idempotent == NormalizedTwice => nz_text = nz_once

LastDigit(text) ==
    Max({ i \in 1..Len(text) : text[i] \in Digits })

NoSpaces(text) ==
    LET NotSpace(c) == c \notin Spaces
    IN  SelectSeq(text, NotSpace)

\* a digit, a point and further digits, with any spaces between them, and
\* then nothing or a unit m after spaces
IsSpacedDecimal(text) ==
    /\ text # <<>> /\ text[1] \in Digits
    /\ LET number == Slice(text, 1, LastDigit(text))
           rest   == Slice(text, LastDigit(text) + 1, Len(text))
           points == { i \in 1..Len(number) : number[i] = "." }
       IN  /\ AllIn(number, 1, Len(number), Digits \cup Spaces \cup {"."})
           /\ Cardinality(points) = 1
           /\ \/ rest = <<>>
              \/ /\ Len(rest) >= 2
                 /\ rest[Len(rest)] = "m"
                 /\ AllIn(rest, 1, Len(rest) - 1, Spaces)

\* the number without its spaces, and the unit after one space
Despaced(text) ==
    NoSpaces(Slice(text, 1, LastDigit(text)))
        \o (IF LastDigit(text) = Len(text) THEN <<>> ELSE <<" ", "m">>)

\* C19: a number whose point and digits are separated by spaces is
\* collapsed into one decimal number, the spaces between the digits after
\* the point removed as well as those around the point.
C19_SpacedDecimalCollapsed ==
    (NormalizedOnce /\ IsSpacedDecimal(nz_input)) =>
        nz_once = Despaced(nz_input)

\* an unsigned or negative number, to the end of the text, from index i
IsNumberFrom(text, i) ==
    LET s == IF CharAt(text, i) = "-" THEN i + 1 ELSE i
        d == SkipClass(text, s, Digits)
    IN  d > s /\ OptFraction(text, d) = Len(text) + 1

\* C20: "f n" becomes "f(n)" for every function name f of the whitelist and
\* every unsigned or negative number n, and "f(n)" is left unchanged.
C20_FuncArgParenthesized ==
    NormalizedOnce =>
        \A k \in 1..Len(FuncNames) :
            LET func == FuncNames[k]
                u    == Len(func) + 1
            IN  StartsWith(nz_input, 1, func) =>
                  /\ (CharAt(nz_input, u) = " " /\ IsNumberFrom(nz_input, u + 1))
                        => nz_once = func \o <<"(">>
                                        \o Slice(nz_input, u + 1, Len(nz_input))
                                        \o <<")">>
                  /\ (/\ CharAt(nz_input, u) = "("
                      /\ nz_input[Len(nz_input)] = ")"
                      /\ IsNumberFrom(Slice(nz_input, 1, Len(nz_input) - 1), u + 1))
                        => nz_once = nz_input

(***************************************************************************)
(* Dataset builders: build_dataset_for_paper and build_clean_dataset (the  *)
(* single-paper path) and process_single_paper (the all-papers builder),   *)
(* run one after the other on the same parsed questions and answer map.    *)
(* The constant fields of a record (paper_id, pages, year, date, shift)    *)
(* are left out.                                                           *)
(***************************************************************************)
UpperCase ==
    <<"A", "B", "C", "D", "E", "F", "G", "H", "I", "J", "K", "L", "M", "N",
      "O", "P", "Q", "R", "S", "T", "U", "V", "W", "X", "Y", "Z", "U+03A0",
      "U+0398">>

LowerCase ==
    <<"a", "b", "c", "d", "e", "f", "g", "h", "i", "j", "k", "l", "m", "n",
      "o", "p", "q", "r", "s", "t", "u", "v", "w", "x", "y", "z", "U+03C0",
      "U+03B8">>

\* str.lower()
Lower(text) ==
    [ i \in 1..Len(text) |->
        IF \E k \in 1..Len(UpperCase) : UpperCase[k] = text[i]
        THEN LowerCase[CHOOSE k \in 1..Len(UpperCase) : UpperCase[k] = text[i]]
        ELSE text[i] ]

\* str.find(sub) + 1, NoMatch when sub does not occur
Find(text, sub) ==
    LET hits == { i \in 1..(Len(text) - Len(sub) + 1) :
                    SubSeq(text, i, i + Len(sub) - 1) = sub }
    IN  IF hits = {} THEN NoMatch ELSE Min(hits)

\* sub in text
Contains(text, sub) == Find(text, sub) # NoMatch

\* build_mcq_dataset_single_paper.JUNK_SUBSTRINGS
JUNK_SUBSTRINGS ==
    << <<"J", "E", "E", " ", "M", "a", "i", "n", " ", "2", "0", "2", "4">>,
       <<"M", "a", "t", "h", "o", "n", "G", "o">>,
       <<"h", "t", "t", "p", "s", ":", "/", "/">> >>

\* build_full_dataset.JUNK_SUBSTRINGS
FULL_JUNK_SUBSTRINGS ==
    << <<"J", "E", "E", " ", "M", "a", "i", "n", " ", "2", "0", "2", "4">>,
       <<"J", "E", "E", " ", "M", "a", "i", "n", " ", "2", "0", "2", "5">>,
       <<"M", "a", "t", "h", "o", "n", "G", "o">>,
       <<"h", "t", "t", "p", "s", ":", "/", "/">>,
       <<"w", "w", "w", ".">> >>

\* clean_single_paper_dataset.FIGURE_HINTS
FIGURE_HINTS ==
    { <<"i", "n", " ", "t", "h", "e", " ", "f", "i", "g", "u", "r", "e">>,
      <<"i", "n", " ", "f", "i", "g", "u", "r", "e">>,
      <<"i", "n", " ", "t", "h", "e", " ", "f", "o", "l", "l", "o", "w",
        "i", "n", "g", " ", "f", "i", "g", "u", "r", "e">>,
      <<"i", "n", " ", "t", "h", "e", " ", "d", "i", "a", "g", "r", "a",
        "m">>,
      <<"s", "h", "o", "w", "n", " ", "i", "n", " ", "f", "i", "g", "u",
        "r", "e">>,
      <<"s", "h", "o", "w", "n", " ", "i", "n", " ", "t", "h", "e", " ",
        "f", "i", "g", "u", "r", "e">>,
      <<"c", "i", "r", "c", "u", "i", "t", " ", "d", "i", "a", "g", "r",
        "a", "m">>,
      <<"g", "i", "v", "e", "n", " ", "c", "i", "r", "c", "u", "i", "t">>,
      <<"t", "h", "e", " ", "c", "i", "r", "c", "u", "i", "t", " ", "s",
        "h", "o", "w", "n">> }

\* build_full_dataset.FIGURE_HINTS
FULL_FIGURE_HINTS ==
    FIGURE_HINTS \cup
        { <<"a", "s", " ", "s", "h", "o", "w", "n">>,
          <<"f", "i", "g", "u", "r", "e", " ", "s", "h", "o", "w", "s">>,
          <<"d", "i", "a", "g", "r", "a", "m", " ", "s", "h", "o", "w",
            "s">> }

\* _strip_junk: the text is cut at each junk substring in turn, found with
\* the case-sensitive cleaned.find(junk)
RECURSIVE StripJunk(_, _)
StripJunk(text, k) ==
    IF k > Len(JUNK_SUBSTRINGS) THEN text
    ELSE LET idx == Find(text, JUNK_SUBSTRINGS[k])
         IN  StripJunk(IF idx # NoMatch THEN RStrip(SubSeq(text, 1, idx - 1))
                       ELSE text, k + 1)

\* strip_junk: the same loop over the longer list, found ignoring case
RECURSIVE FullStripJunk(_, _)
FullStripJunk(text, k) ==
    IF k > Len(FULL_JUNK_SUBSTRINGS) THEN text
    ELSE LET idx == Find(Lower(text), Lower(FULL_JUNK_SUBSTRINGS[k]))
         IN  FullStripJunk(IF idx # NoMatch
                           THEN RStrip(SubSeq(text, 1, idx - 1))
                           ELSE text, k + 1)

MathTokens ==
    { <<"s", "i", "n">>, <<"c", "o", "s">>, <<"t", "a", "n">>, <<"c", "o",
                                                                 "t">>, <<
                                                                          "s",
                                                                          "e",
                                                                          "c">>, <<
                                                                                   "c",
                                                                                   "o",
                                                                                   "s",
                                                                                   "e",
                                                                                   "c">>, <<"U+03C0">>, <<
                                                                                                          "^">>,
      <<"t", "h", "e", "t", "a">>, <<"U+03B8">> }

MinMathLen == 10

\* _is_complex_math
IsComplexMath(text, opts) ==
    \E s \in {text} \cup { opts[j] : j \in 1..Len(opts) } :
        /\ Len(Strip(s)) >= MinMathLen
        /\ \E tok \in MathTokens : Contains(Lower(Strip(s)), tok)

\* answer_map.get(n) is None: no answer of the extractor is the empty string
NoAnswer == <<>>

\* record.get("correct_index") is None: the record has no such key
NoIndex == -1

OptionCount == 4

\* _is_clean_textual
IsCleanTextual(record) ==
    /\ record.correct_index # NoIndex
    /\ Len(record.options) = OptionCount
    /\ \A j \in 1..Len(record.options) : Strip(record.options[j]) # <<>>
    /\ \A txt \in {record.question_text}
                    \cup { record.options[j] : j \in 1..Len(record.options) } :
          \A k \in 1..Len(JUNK_SUBSTRINGS) :
              ~Contains(Lower(txt), Lower(JUNK_SUBSTRINGS[k]))

\* the statement of normalize_text at the given place among lines 192-200
NormalizeStage(out, stage) ==
    CASE stage = 1 -> NormalizeUnicode(out)
      [] stage = 2 -> NormalizeDecimals(out)
      [] stage = 3 -> NormalizeUnits(out)
      [] stage = 4 -> NormalizeSimpleFractions(out)
      [] stage = 5 -> NormalizeExponents(out)
      [] stage = 6 -> NormalizeDimensionalFormulas(out)
      [] stage = 7 -> NormalizeFuncArgs(out)
      [] stage = 8 -> NormalizePercents(out)
      [] stage = 9 -> CollapseSpaces(out)

\* the statements from the given place to the last one
RECURSIVE NormalizeFrom(_, _)
NormalizeFrom(out, stage) ==
    IF stage > 9 THEN out
    ELSE NormalizeFrom(NormalizeStage(out, stage), stage + 1)

\* normalize_text as one function: the pipeline of NzSpec
NormalizeText(text) ==
    IF text = <<>> THEN text ELSE NormalizeFrom(text, 1)

\* normalize_question_and_options: the normalized stem, then the normalized
\* options
NormalizeQuestionAndOptions(question_text, opts) ==
    [ j \in 1..(Len(opts) + 1) |->
        NormalizeText((<<question_text>> \o opts)[j]) ]

\* clean_single_paper_dataset._looks_image_dependent
LooksImageDependent(stem) ==
    \E hint \in FIGURE_HINTS : Contains(Lower(stem), hint)

\* build_full_dataset.looks_image_dependent
FullLooksImageDependent(stem) ==
    \E hint \in FULL_FIGURE_HINTS : Contains(Lower(stem), hint)

Blank == <<"_", "_", "_", "_", "_">>

\* clean_single_paper_dataset._is_integer_type
IsIntegerType(rec) == Contains(rec.question_text, Blank)

\* build_full_dataset.is_integer_type
FullIsIntegerType(stem) == Contains(stem, Blank)

\* clean_single_paper_dataset._has_good_options
HasGoodOptions(rec) ==
    /\ Len(rec.options) = OptionCount
    /\ \A j \in 1..Len(rec.options) : Strip(rec.options[j]) # <<>>

\* build_full_dataset.has_good_options
FullHasGoodOptions(opts) ==
    /\ Len(opts) = OptionCount
    /\ \A j \in 1..Len(opts) : Strip(opts[j]) # <<>>

\* answer_map.get(n)
Get(map, n) == IF n \in DOMAIN map THEN map[n] ELSE NoAnswer

\* int(ans) of an answer string; the extractor's answers are digit strings
\* (\d+), so the ValueError branches of the builders are never taken
IntOf(ans) == ToInt(ans)

MaxQuestions == 2

\* stems the parser can return: stripped and non-empty
DsStems ==
    { <<"x">>,
      <<"n", " ", "i", "s", " ", "_", "_", "_", "_", "_">>,
      <<"x", " ", "a", "s", " ", "s", "h", "o", "w", "n">>,
      <<"x", " ", "i", "n", " ", "f", "i", "g", "u", "r", "e">>,
      <<"x", " ", "M", "a", "t", "h", "o", "n", "G", "o">>,
      <<"x", " ", "w", "w", "w", ".", " ", "_", "_", "_", "_", "_">> }

\* option lists the parser can return: none or four, any of them empty
DsOptions ==
    { <<>>,
      << <<"a">>, <<"b">>, <<"c">>, <<"d">> >>,
      << <<"a">>, <<>>, <<"c">>, <<"d">> >> }

\* answers the extractor can return for one question
DsAnswers == { <<"1">>, <<"7">> }

DsQuestionLists ==
    UNION { [ 1..n -> DsStems \X DsOptions ] : n \in 1..MaxQuestions }

DsAnswerMaps(n) ==
    UNION { [ keys -> DsAnswers ] : keys \in SUBSET (1..n) }

DsInit ==
    /\ \E qs \in DsQuestionLists :
          /\ questions = [ i \in 1..Len(qs) |->
                             [question_number |-> i,
                              question_text |-> qs[i][1],
                              options |-> qs[i][2]] ]
          /\ answer_map \in DsAnswerMaps(Len(qs))
    /\ ds_pc = "build"
    /\ ds_qi = 1
    /\ RAW_DATASET = <<>>
    /\ CLEAN_DATASET = <<>>
    /\ clean_records = <<>>
    /\ ds_step = "normalize"
    /\ ds_stem = <<>>
    /\ ds_opts = <<>>
    /\ ParserIdle /\ AkIdle /\ VaIdle /\ NzIdle /\ NgIdle /\ TgIdle /\ BpIdle /\ GpIdle /\ TfIdle

\* the record of lines 110-117 with the flags of lines 120-121, computed
\* before lines 126-131 attach the answer
RawRecord(q, stem, opts, ans) ==
    LET record == [question_number |-> q.question_number,
                   question_text |-> stem,
                   options |-> opts,
                   correct_index |-> NoIndex]
        flagged == [question_number |-> q.question_number,
                    question_text |-> stem,
                    options |-> opts,
                    complex_math |-> IsComplexMath(stem, opts),
                    clean_textual |-> IsCleanTextual(record),
                    correct_index |-> NoIndex]
    IN  IF ans # NoAnswer
        THEN [flagged EXCEPT !.correct_index = IntOf(ans)]
        ELSE flagged

\* build_dataset_for_paper, lines 103-108 of the loop: stem and opts are
\* normalized and stripped of junk
NormalizeQuestion ==
    /\ ds_pc = "build"
    /\ ds_qi <= Len(questions)
    /\ ds_step = "normalize"
    /\ \E norm \in {NormalizeQuestionAndOptions(questions[ds_qi].question_text,
                                                questions[ds_qi].options)} :
          /\ ds_stem' = StripJunk(Head(norm), 1)
          /\ ds_opts' = [ j \in 1..Len(Tail(norm)) |->
                            StripJunk(Tail(norm)[j], 1) ]
    /\ ds_step' = "decide"
    /\ UNCHANGED <<questions, answer_map, ds_pc, ds_qi, RAW_DATASET,
                   CLEAN_DATASET, clean_records, parserVars, akVars, vaVars,
                   nzVars, ngVars, tgVars, bpVars, gpVars, tfVars>>

\* build_dataset_for_paper, the rest of the iteration, lines 110-133
WriteRecord ==
    /\ ds_pc = "build"
    /\ ds_qi <= Len(questions)
    /\ ds_step = "decide"
    /\ LET q   == questions[ds_qi]
           ans == Get(answer_map, q.question_number)
       IN  RAW_DATASET' =
               Append(RAW_DATASET, RawRecord(q, ds_stem, ds_opts, ans))
    /\ ds_qi' = ds_qi + 1
    /\ ds_step' = "normalize"
    /\ UNCHANGED <<questions, answer_map, ds_pc, CLEAN_DATASET, clean_records,
                   ds_stem, ds_opts,
                   parserVars, akVars, vaVars, nzVars,
                   ngVars,
                   tgVars,
                   bpVars,
                   gpVars,
                   tfVars>>

\* build_dataset_for_paper returns and build_clean_dataset opens the file
BuildDone ==
    /\ ds_pc = "build"
    /\ ds_qi > Len(questions)
    /\ ds_pc' = "clean"
    /\ ds_qi' = 1
    /\ UNCHANGED <<ds_step, ds_stem, ds_opts, questions, answer_map, RAW_DATASET, CLEAN_DATASET,
                   clean_records, parserVars, akVars, vaVars, nzVars,
                   ngVars,
                   tgVars,
                   bpVars,
                   gpVars,
                   tfVars>>

CleanStep(keep, question_type) ==
    /\ CLEAN_DATASET' =
          IF keep
          THEN Append(CLEAN_DATASET,
                      [question_number |-> RAW_DATASET[ds_qi].question_number,
                       question_text |-> RAW_DATASET[ds_qi].question_text,
                       options |-> RAW_DATASET[ds_qi].options,
                       complex_math |-> RAW_DATASET[ds_qi].complex_math,
                       clean_textual |-> RAW_DATASET[ds_qi].clean_textual,
                       correct_index |-> RAW_DATASET[ds_qi].correct_index,
                       question_type |-> question_type])
          ELSE CLEAN_DATASET
    /\ ds_qi' = ds_qi + 1
    /\ UNCHANGED <<ds_step, ds_stem, ds_opts, questions, answer_map, ds_pc, RAW_DATASET, clean_records,
                   parserVars, akVars, vaVars, nzVars,
                   ngVars,
                   tgVars,
                   bpVars,
                   gpVars,
                   tfVars>>

\* build_clean_dataset, lines 70-72
CleanDropImageDependent ==
    /\ ds_pc = "clean"
    /\ ds_qi <= Len(RAW_DATASET)
    /\ LooksImageDependent(RAW_DATASET[ds_qi].question_text)
    /\ CleanStep(FALSE, "")

\* lines 75-81
CleanKeepInteger ==
    /\ ds_pc = "clean"
    /\ ds_qi <= Len(RAW_DATASET)
    /\ ~LooksImageDependent(RAW_DATASET[ds_qi].question_text)
    /\ IsIntegerType(RAW_DATASET[ds_qi])
    /\ CleanStep(TRUE, "integer")

\* lines 84-86
CleanDropNoIndex ==
    /\ ds_pc = "clean"
    /\ ds_qi <= Len(RAW_DATASET)
    /\ ~LooksImageDependent(RAW_DATASET[ds_qi].question_text)
    /\ ~IsIntegerType(RAW_DATASET[ds_qi])
    /\ RAW_DATASET[ds_qi].correct_index = NoIndex
    /\ CleanStep(FALSE, "")

\* lines 87-89
CleanDropBadOptions ==
    /\ ds_pc = "clean"
    /\ ds_qi <= Len(RAW_DATASET)
    /\ ~LooksImageDependent(RAW_DATASET[ds_qi].question_text)
    /\ ~IsIntegerType(RAW_DATASET[ds_qi])
    /\ RAW_DATASET[ds_qi].correct_index # NoIndex
    /\ ~HasGoodOptions(RAW_DATASET[ds_qi])
    /\ CleanStep(FALSE, "")

\* lines 91-94
CleanKeepMcq ==
    /\ ds_pc = "clean"
    /\ ds_qi <= Len(RAW_DATASET)
    /\ ~LooksImageDependent(RAW_DATASET[ds_qi].question_text)
    /\ ~IsIntegerType(RAW_DATASET[ds_qi])
    /\ RAW_DATASET[ds_qi].correct_index # NoIndex
    /\ HasGoodOptions(RAW_DATASET[ds_qi])
    /\ CleanStep(TRUE, "mcq")

\* build_clean_dataset returns and process_single_paper starts its loop
CleanDone ==
    /\ ds_pc = "clean"
    /\ ds_qi > Len(RAW_DATASET)
    /\ ds_pc' = "full"
    /\ ds_qi' = 1
    /\ UNCHANGED <<ds_step, ds_stem, ds_opts, questions, answer_map, RAW_DATASET, CLEAN_DATASET,
                   clean_records, parserVars, akVars, vaVars, nzVars,
                   ngVars,
                   tgVars,
                   bpVars,
                   gpVars,
                   tfVars>>

\* process_single_paper, lines 167-171: stem and opts are normalized and
\* stripped of junk
FullNormalizeQuestion ==
    /\ ds_pc = "full"
    /\ ds_qi <= Len(questions)
    /\ ds_step = "normalize"
    /\ \E norm \in {NormalizeQuestionAndOptions(questions[ds_qi].question_text,
                                                questions[ds_qi].options)} :
          /\ ds_stem' = FullStripJunk(Head(norm), 1)
          /\ ds_opts' = [ j \in 1..Len(Tail(norm)) |->
                            FullStripJunk(Tail(norm)[j], 1) ]
    /\ ds_step' = "decide"
    /\ UNCHANGED <<questions, answer_map, ds_pc, ds_qi, RAW_DATASET,
                   CLEAN_DATASET, clean_records, parserVars, akVars, vaVars,
                   nzVars, ngVars, tgVars, bpVars, gpVars, tfVars>>

\* line 179
FullAns(q) == Get(answer_map, q.question_number)

FullDrop ==
    /\ ds_qi' = ds_qi + 1
    /\ ds_step' = "normalize"
    /\ UNCHANGED <<questions, answer_map, ds_pc, RAW_DATASET, CLEAN_DATASET,
                   clean_records, ds_stem, ds_opts, parserVars, akVars, vaVars, nzVars,
                   ngVars,
                   tgVars,
                   bpVars,
                   gpVars,
                   tfVars>>

FullKeep(record) ==
    /\ clean_records' = Append(clean_records, record)
    /\ ds_qi' = ds_qi + 1
    /\ ds_step' = "normalize"
    /\ UNCHANGED <<questions, answer_map, ds_pc, RAW_DATASET, CLEAN_DATASET,
                   ds_stem, ds_opts,
                   parserVars, akVars, vaVars, nzVars,
                   ngVars,
                   tgVars,
                   bpVars,
                   gpVars,
                   tfVars>>

MinIndex == 1
MaxIndex == 4

\* lines 174-176
FullDropImageDependent ==
    /\ ds_pc = "full"
    /\ ds_qi <= Len(questions)
    /\ ds_step = "decide"
    /\ FullLooksImageDependent(ds_stem)
    /\ FullDrop

\* lines 182-186
FullDropIntegerNoAnswer ==
    /\ ds_pc = "full"
    /\ ds_qi <= Len(questions)
    /\ ds_step = "decide"
    /\ ~FullLooksImageDependent(ds_stem)
    /\ FullIsIntegerType(ds_stem)
    /\ FullAns(questions[ds_qi]) = NoAnswer
    /\ FullDrop

\* lines 188-201 and 232
FullKeepInteger ==
    /\ ds_pc = "full"
    /\ ds_qi <= Len(questions)
    /\ ds_step = "decide"
    /\ ~FullLooksImageDependent(ds_stem)
    /\ FullIsIntegerType(ds_stem)
    /\ FullAns(questions[ds_qi]) # NoAnswer
    /\ FullKeep([question_number |-> questions[ds_qi].question_number,
                 question_text |-> ds_stem,
                 options |-> ds_opts,
                 question_type |-> "integer",
                 correct_answer |-> IntOf(FullAns(questions[ds_qi]))])

\* lines 205-207
FullDropBadOptions ==
    /\ ds_pc = "full"
    /\ ds_qi <= Len(questions)
    /\ ds_step = "decide"
    /\ ~FullLooksImageDependent(ds_stem)
    /\ ~FullIsIntegerType(ds_stem)
    /\ ~FullHasGoodOptions(ds_opts)
    /\ FullDrop

\* lines 208-210
FullDropNoAnswer ==
    /\ ds_pc = "full"
    /\ ds_qi <= Len(questions)
    /\ ds_step = "decide"
    /\ ~FullLooksImageDependent(ds_stem)
    /\ ~FullIsIntegerType(ds_stem)
    /\ FullHasGoodOptions(ds_opts)
    /\ FullAns(questions[ds_qi]) = NoAnswer
    /\ FullDrop

\* 1 <= correct_idx <= 4 of line 213
IndexInRange(ans) == MinIndex <= IntOf(ans) /\ IntOf(ans) <= MaxIndex

\* lines 211-218
FullDropBadIndex ==
    /\ ds_pc = "full"
    /\ ds_qi <= Len(questions)
    /\ ds_step = "decide"
    /\ ~FullLooksImageDependent(ds_stem)
    /\ ~FullIsIntegerType(ds_stem)
    /\ FullHasGoodOptions(ds_opts)
    /\ FullAns(questions[ds_qi]) # NoAnswer
    /\ ~IndexInRange(FullAns(questions[ds_qi]))
    /\ FullDrop

\* lines 220-232
FullKeepMcq ==
    /\ ds_pc = "full"
    /\ ds_qi <= Len(questions)
    /\ ds_step = "decide"
    /\ ~FullLooksImageDependent(ds_stem)
    /\ ~FullIsIntegerType(ds_stem)
    /\ FullHasGoodOptions(ds_opts)
    /\ FullAns(questions[ds_qi]) # NoAnswer
    /\ IndexInRange(FullAns(questions[ds_qi]))
    /\ FullKeep([question_number |-> questions[ds_qi].question_number,
                 question_text |-> ds_stem,
                 options |-> ds_opts,
                 question_type |-> "mcq",
                 correct_index |-> IntOf(FullAns(questions[ds_qi]))])

\* line 235
FullReturn ==
    /\ ds_pc = "full"
    /\ ds_qi > Len(questions)
    /\ ds_pc' = "done"
    /\ UNCHANGED <<ds_step, ds_stem, ds_opts, questions, answer_map, ds_qi, RAW_DATASET, CLEAN_DATASET,
                   clean_records, parserVars, akVars, vaVars, nzVars,
                   ngVars,
                   tgVars,
                   bpVars,
                   gpVars,
                   tfVars>>

DsNext ==
    \/ NormalizeQuestion
    \/ WriteRecord
    \/ BuildDone
    \/ CleanDropImageDependent
    \/ CleanKeepInteger
    \/ CleanDropNoIndex
    \/ CleanDropBadOptions
    \/ CleanKeepMcq
    \/ CleanDone
    \/ FullNormalizeQuestion
    \/ FullDropImageDependent
    \/ FullDropIntegerNoAnswer
    \/ FullKeepInteger
    \/ FullDropBadOptions
    \/ FullDropNoAnswer
    \/ FullDropBadIndex
    \/ FullKeepMcq
    \/ FullReturn

DsSpec == DsInit /\ [][DsNext]_vars

\* question numbers of the records of a dataset
NumbersOf(dataset) ==
    { dataset[i].question_number : i \in 1..Len(dataset) }

\* C21: a parsed question whose question_number is not a key of the answer
\* map is never written to a final dataset, as mcq or as integer, by
\* build_dataset_for_paper + build_clean_dataset or by process_single_paper
C21_UnansweredNeverInFinalDataset ==
    /\ NumbersOf(CLEAN_DATASET) \subseteq DOMAIN answer_map
    /\ NumbersOf(clean_records) \subseteq DOMAIN answer_map

\* the questions a dataset keeps, each with its question_type, in order
KeptWithType(dataset) ==
    [ i \in 1..Len(dataset) |->
        <<dataset[i].question_number, dataset[i].question_type>> ]

\* C22: when both paths have run on the same questions and answer map,
\* process_single_paper has kept exactly the questions the two-step
\* single-paper path has kept, with the same question_type
C22_SameKeepDropLogic ==
    ds_pc = "done" => KeptWithType(clean_records) = KeptWithType(CLEAN_DATASET)

\* C26: every record build_dataset_for_paper has written that has 4
\* non-empty options, a correct_index and no junk substring in its stem or
\* options carries clean_textual = true
C26_CleanTextualOfWrittenRecord ==
    \A i \in 1..Len(RAW_DATASET) :
        IsCleanTextual(RAW_DATASET[i]) => RAW_DATASET[i].clean_textual

(***************************************************************************)
(* NougatQuestionParser.parse_markdown_content                             *)
(* The question_id of a question is a function of paper_id and q_num and   *)
(* is left out.                                                            *)
(***************************************************************************)
\* question_start_pattern = ^Q(\d+)\s*[.)\-:]?\s* with MULTILINE and
\* IGNORECASE: the index just after the digits of a label that starts at p
QuestionStartDigits(text, p) ==
    IF /\ p <= Len(text)
       /\ text[p] \in {"Q", "q"}
       /\ (p = 1 \/ text[p - 1] = LineBreak)
       /\ SkipClass(text, p + 1, Digits) > p + 1
    THEN SkipClass(text, p + 1, Digits)
    ELSE NoMatch

\* the index just after \s*[.)\-:]?\s* from index d
LabelEnd(text, d) ==
    LET w == SkipClass(text, d, Spaces)
        u == IF CharAt(text, w) \in TrailingPunct THEN w + 1 ELSE w
    IN  SkipClass(text, u, Spaces)

\* question_start_pattern.finditer(text) from index i: the starts of the
\* matches, each match running to the end of its label
RECURSIVE QuestionStarts(_, _)
QuestionStarts(text, i) ==
    LET found == { p \in i..Len(text) :
                     QuestionStartDigits(text, p) # NoMatch }
    IN  IF found = {} THEN <<>>
        ELSE <<Min(found)>>
                 \o QuestionStarts(text,
                        LabelEnd(text, QuestionStartDigits(text, Min(found))))

\* _split_into_question_sections
SplitIntoQuestionSections(text) ==
    LET starts == QuestionStarts(text, 1)
    IN  [ i \in 1..Len(starts) |->
            [q_num |-> ToInt(SubSeq(text, starts[i] + 1,
                                    QuestionStartDigits(text, starts[i]) - 1)),
             section |-> SubSeq(text, starts[i],
                                IF i < Len(starts) THEN starts[i + 1] - 1
                                ELSE Len(text))] ]

\* line 140: the label is removed from the beginning of the section
RemoveQuestionNumber(section) ==
    IF QuestionStartDigits(section, 1) = NoMatch THEN section
    ELSE Slice(section, LabelEnd(section, QuestionStartDigits(section, 1)),
               Len(section))

\* \([1-4]\) at index i
OptionMarkerAt(text, i) ==
    /\ i + 2 <= Len(text)
    /\ text[i] = "("
    /\ text[i + 1] \in OptionDigits
    /\ text[i + 2] = ")"

AnswerWord == <<"A", "n", "s", "w", "e", "r">>
CorrectWord == <<"C", "o", "r", "r", "e", "c", "t">>

\* the lookahead (?=\n\s*\([1-4]\)|\n\s*(?:Answer|Correct)|\Z) at index i
OptionEndsBefore(text, i) ==
    \/ i = Len(text) + 1
    \/ /\ i <= Len(text)
       /\ text[i] = LineBreak
       /\ LET j == SkipClass(text, i + 1, Spaces)
          IN  \/ OptionMarkerAt(text, j)
              \/ StartsWith(text, j, AnswerWord)
              \/ StartsWith(text, j, CorrectWord)

\* \(([1-4])\)\s*(.+?)(?=...) at index p: the greedy \s* gives one character
\* back when it ran to the end of the text, and the lazy .+? stops at the
\* first index the lookahead accepts
OptionMatch(text, p) ==
    IF ~OptionMarkerAt(text, p) THEN [end |-> NoMatch]
    ELSE LET w == SkipClass(text, p + 3, Spaces)
             s == IF w <= Len(text) THEN w ELSE w - 1
         IN  IF s < p + 3 THEN [end |-> NoMatch]
             ELSE LET e == Min({ k \in s..Len(text) :
                                   OptionEndsBefore(text, k + 1) })
                  IN  [end |-> e + 1, start |-> p, id |-> text[p + 1],
                       body |-> SubSeq(text, s, e)]

\* option_pattern.finditer(text) from index i
RECURSIVE OptionMatches(_, _)
OptionMatches(text, i) ==
    LET found == { p \in i..Len(text) : OptionMatch(text, p).end # NoMatch }
    IN  IF found = {} THEN <<>>
        ELSE <<OptionMatch(text, Min(found))>>
                 \o OptionMatches(text, OptionMatch(text, Min(found)).end)

\* str.strip() with \s: spaces and line breaks
RECURSIVE StripOf(_, _)
StripOf(s, cs) ==
    IF s # <<>> /\ Head(s) \in cs THEN StripOf(Tail(s), cs)
    ELSE IF s # <<>> /\ s[Len(s)] \in cs
    THEN StripOf(SubSeq(s, 1, Len(s) - 1), cs)
    ELSE s

\* re.sub(r'\s+', ' ', text)
RECURSIVE CollapseWhitespace(_)
CollapseWhitespace(text) ==
    IF text = <<>> THEN <<>>
    ELSE IF Head(text) \in Spaces
    THEN <<" ">> \o CollapseWhitespace(
                        SubSeq(text, SkipClass(text, 1, Spaces), Len(text)))
    ELSE <<Head(text)>> \o CollapseWhitespace(Tail(text))

OptionTrim == {".", ",", ";", LineBreak}

\* lines 203-207
OptionText(body) ==
    StripOf(CollapseWhitespace(StripOf(body, Spaces)), OptionTrim)

\* _extract_options
ExtractOptions(text) ==
    LET matches == OptionMatches(text, 1)
        texts   == [ i \in 1..Len(matches) |->
                       [id |-> matches[i].id,
                        latex |-> OptionText(matches[i].body)] ]
        NonEmpty(o) == o.latex # <<>>
    IN  [options |-> SelectSeq(texts, NonEmpty),
         remaining_text |-> IF matches = <<>> THEN text
                            ELSE SubSeq(text, 1, matches[1].start - 1)]

\* the phrases of line 235, each as its words, which \s+ separates
Suffixes ==
    << << <<"C", "h", "o", "o", "s", "e">> >>,
       << <<"S", "e", "l", "e", "c", "t">> >>,
       << <<"F", "i", "n", "d">> >>,
       << <<"T", "h", "e">>, <<"v", "a", "l", "u", "e">> >>,
       << <<"i", "s">>, <<"g", "i", "v", "e", "n">>, <<"b", "y">> >> >>

\* the index just after the words from index i, NoMatch if they are not there
RECURSIVE WordsEnd(_, _, _)
WordsEnd(text, i, words) ==
    IF ~StartsWith(text, i, Head(words)) THEN NoMatch
    ELSE IF Len(words) = 1 THEN i + Len(Head(words))
    ELSE LET j == i + Len(Head(words))
             w == SkipClass(text, j, Spaces)
         IN  IF w = j THEN NoMatch ELSE WordsEnd(text, w, Tail(words))

\* \s*:?\s*$ from index j
ColonToEnd(text, j) ==
    LET w == SkipClass(text, j, Spaces)
        u == IF CharAt(text, w) = ":" THEN w + 1 ELSE w
    IN  SkipClass(text, u, Spaces) = Len(text) + 1

\* (?:Choose|Select|Find|The\s+value|is\s+given\s+by)?\s*:?\s*$ at index i
SuffixAt(text, i) ==
    \/ \E k \in 1..Len(Suffixes) :
          /\ WordsEnd(text, i, Suffixes[k]) # NoMatch
          /\ ColonToEnd(text, WordsEnd(text, i, Suffixes[k]))
    \/ ColonToEnd(text, i)

\* _extract_question_text: the first match of the suffix is replaced by a
\* colon, and so is the empty match at the end that follows a non-empty one
ExtractQuestionText(text) ==
    LET question_text == StripOf(text, Spaces)
        i == Min({ k \in 1..(Len(question_text) + 1) :
                     SuffixAt(question_text, k) })
        replaced == SubSeq(question_text, 1, i - 1) \o <<":">>
                        \o (IF i <= Len(question_text) THEN <<":">> ELSE <<>>)
    IN  IF replaced[Len(replaced)] = ":" THEN replaced
        ELSE replaced \o <<":">>

\* \s*[:=]?\s*\(?([1-4]) from index j: the index of the digit, or NoMatch
AnswerDigitAt(text, j) ==
    LET w == SkipClass(text, j, Spaces)
        u == IF CharAt(text, w) \in {":", "="} THEN w + 1 ELSE w
        v == SkipClass(text, u, Spaces)
        d == IF CharAt(text, v) = "(" THEN v + 1 ELSE v
    IN  IF CharAt(text, d) \in OptionDigits THEN d ELSE NoMatch

\* (?:Answer|Correct\s*Answer) at index i of the lowered text: the index
\* just after it, or NoMatch
AnswerKeywordEnd(lowered, i) ==
    IF StartsWith(lowered, i, Lower(AnswerWord)) THEN i + Len(AnswerWord)
    ELSE IF /\ StartsWith(lowered, i, Lower(CorrectWord))
            /\ StartsWith(lowered,
                          SkipClass(lowered, i + Len(CorrectWord), Spaces),
                          Lower(AnswerWord))
    THEN SkipClass(lowered, i + Len(CorrectWord), Spaces) + Len(AnswerWord)
    ELSE NoMatch

AnsWord == <<"A", "n", "s">>

\* (?:Ans|Answer)\s*[:=]?\s*\(?([1-4])\)?(?:\s|$) at index i of the lowered
\* text: the index of the digit, or NoMatch
AnsMatch(lowered, i) ==
    LET AfterDigit(d) ==
            \/ d + 1 > Len(lowered)
            \/ lowered[d + 1] \in Spaces
            \/ /\ lowered[d + 1] = ")"
               /\ (d + 2 > Len(lowered) \/ lowered[d + 2] \in Spaces)
        Try(j) == IF AnswerDigitAt(lowered, j) # NoMatch
                     /\ AfterDigit(AnswerDigitAt(lowered, j))
                  THEN AnswerDigitAt(lowered, j) ELSE NoMatch
    IN  IF ~StartsWith(lowered, i, Lower(AnsWord)) THEN NoMatch
        ELSE IF Try(i + Len(AnsWord)) # NoMatch THEN Try(i + Len(AnsWord))
        ELSE IF StartsWith(lowered, i, Lower(AnswerWord))
        THEN Try(i + Len(AnswerWord))
        ELSE NoMatch

\* correct_answer is None
NoCorrectAnswer == ""

\* _extract_answer
ExtractAnswer(text) ==
    LET lowered == Lower(text)
        first  == { i \in 1..Len(text) :
                      /\ AnswerKeywordEnd(lowered, i) # NoMatch
                      /\ AnswerDigitAt(lowered, AnswerKeywordEnd(lowered, i))
                            # NoMatch }
        second == { i \in 1..Len(text) : AnsMatch(lowered, i) # NoMatch }
    IN  IF first # {}
        THEN text[AnswerDigitAt(lowered, AnswerKeywordEnd(lowered, Min(first)))]
        ELSE IF second # {} THEN text[AnsMatch(lowered, Min(second))]
        ELSE NoCorrectAnswer

chem_keywords ==
    { <<"a", "t", "o", "m">>, <<"m", "o", "l", "e", "c", "u", "l", "e">>, <<
                                                                            "b",
                                                                            "o",
                                                                            "n",
                                                                            "d">>, <<
                                                                                     "r",
                                                                                     "e",
                                                                                     "a",
                                                                                     "c",
                                                                                     "t",
                                                                                     "i",
                                                                                     "o",
                                                                                     "n">>, <<
                                                                                              "c",
                                                                                              "o",
                                                                                              "m",
                                                                                              "p",
                                                                                              "o",
                                                                                              "u",
                                                                                              "n",
                                                                                              "d">>, <<
                                                                                                       "e",
                                                                                                       "l",
                                                                                                       "e",
                                                                                                       "m",
                                                                                                       "e",
                                                                                                       "n",
                                                                                                       "t">>,
      <<"v", "a", "l", "e", "n", "c", "y">>, <<"o", "x", "i", "d", "a",
                                               "t",
                                               "i",
                                               "o",
                                               "n">>, <<"p", "H">>, <<"a",
                                                                      "c",
                                                                      "i",
                                                                      "d">>, <<
                                                                               "b",
                                                                               "a",
                                                                               "s",
                                                                               "e">>, <<
                                                                                        "s",
                                                                                        "a",
                                                                                        "l",
                                                                                        "t">>, <<
                                                                                                 "o",
                                                                                                 "r",
                                                                                                 "g",
                                                                                                 "a",
                                                                                                 "n",
                                                                                                 "i",
                                                                                                 "c">>,
      <<"i", "n", "o", "r", "g", "a", "n", "i", "c">>, <<"s", "t", "r",
                                                         "u",
                                                         "c",
                                                         "t",
                                                         "u",
                                                         "r",
                                                         "e">>, <<"s", "m",
                                                                  "i",
                                                                  "l",
                                                                  "e",
                                                                  "s">>, <<
                                                                           "c",
                                                                           "h",
                                                                           "e",
                                                                           "m",
                                                                           "i",
                                                                           "c",
                                                                           "a",
                                                                           "l">> }

physics_keywords ==
    { <<"f", "o", "r", "c", "e">>, <<"v", "e", "l", "o", "c", "i", "t",
                                     "y">>, <<"a", "c", "c", "e", "l", "e",
                                              "r",
                                              "a",
                                              "t",
                                              "i",
                                              "o",
                                              "n">>, <<"e", "n", "e", "r",
                                                       "g",
                                                       "y">>, <<"m", "o",
                                                                "m",
                                                                "e",
                                                                "n",
                                                                "t",
                                                                "u",
                                                                "m">>, <<
                                                                         "w",
                                                                         "a",
                                                                         "v",
                                                                         "e">>,
      <<"f", "i", "e", "l", "d">>, <<"c", "h", "a", "r", "g", "e">>, <<"m",
                                                                       "a",
                                                                       "g",
                                                                       "n",
                                                                       "e",
                                                                       "t",
                                                                       "i",
                                                                       "c">>, <<
                                                                                "e",
                                                                                "l",
                                                                                "e",
                                                                                "c",
                                                                                "t",
                                                                                "r",
                                                                                "i",
                                                                                "c">>, <<
                                                                                         "m",
                                                                                         "o",
                                                                                         "t",
                                                                                         "i",
                                                                                         "o",
                                                                                         "n">>, <<
                                                                                                  "p",
                                                                                                  "a",
                                                                                                  "r",
                                                                                                  "t",
                                                                                                  "i",
                                                                                                  "c",
                                                                                                  "l",
                                                                                                  "e">>,
      <<"t", "e", "m", "p", "e", "r", "a", "t", "u", "r", "e">>, <<"p",
                                                                   "r",
                                                                   "e",
                                                                   "s",
                                                                   "s",
                                                                   "u",
                                                                   "r",
                                                                   "e">>, <<
                                                                            "o",
                                                                            "p",
                                                                            "t",
                                                                            "i",
                                                                            "c",
                                                                            "s">>, <<
                                                                                     "m",
                                                                                     "e",
                                                                                     "c",
                                                                                     "h",
                                                                                     "a",
                                                                                     "n",
                                                                                     "i",
                                                                                     "c",
                                                                                     "s">> }

\* _detect_subject
DetectSubject(question_text) ==
    LET text_lower == Lower(question_text)
        chem_count ==
            Cardinality({ kw \in chem_keywords : Contains(text_lower, kw) })
        physics_count ==
            Cardinality({ kw \in physics_keywords : Contains(text_lower, kw) })
    IN  IF chem_count > physics_count THEN "Chemistry"
        ELSE IF physics_count > 0 THEN "Physics"
        ELSE "Mathematics"

\* _detect_question_type: every branch returns "MCQ"
DetectQuestionType(opts) == "MCQ"

\* len(options) < 4 of line 149
MinOptions == 4

MaxSections == 2

NgLine(t) == t \o <<LineBreak>>

NgLabels ==
    { <<"Q", "1", ".", " ", "s">>, <<"Q", "2", " ", "t">>, <<"q", "3", ")",
                                                             " ",
                                                             "f",
                                                             "o",
                                                             "r",
                                                             "c",
                                                             "e",
                                                             " ",
                                                             ":">> }

\* the lines under a label: complete, missing, short, with an option line
\* that has no text or punctuation only, with a fifth option, on one line
NgOptionLines ==
    { << <<"(", "1", ")", " ", "a">>, <<"(", "2", ")", " ", "b">>, <<"(",
                                                                     "3",
                                                                     ")",
                                                                     " ",
                                                                     "c">>, <<
                                                                              "(",
                                                                              "4",
                                                                              ")",
                                                                              " ",
                                                                              "d">> >>,
      <<>>,
      << <<"(", "1", ")", " ", "a">>, <<"(", "2", ")", " ", "b">> >>,
      << <<"(", "1", ")", " ", "a">>, <<"(", "2", ")">>, <<"(", "3", ")",
                                                           " ",
                                                           "c">>, <<"(",
                                                                    "4",
                                                                    ")",
                                                                    " ",
                                                                    "d">> >>,
      << <<"(", "1", ")", " ", "a">>, <<"(", "2", ")", " ", ".">>, <<"(",
                                                                     "3",
                                                                     ")",
                                                                     " ",
                                                                     "c">>, <<
                                                                              "(",
                                                                              "4",
                                                                              ")",
                                                                              " ",
                                                                              "d">> >>,
      << <<"(", "1", ")", " ", "a">>, <<"(", "2", ")", " ", "b">>, <<"(",
                                                                     "3",
                                                                     ")",
                                                                     " ",
                                                                     "c">>, <<
                                                                              "(",
                                                                              "4",
                                                                              ")",
                                                                              " ",
                                                                              "d">>, <<
                                                                                       "(",
                                                                                       "1",
                                                                                       ")",
                                                                                       " ",
                                                                                       "e">> >>,
      << <<"(", "1", ")", " ", "a", " ", "(", "2", ")", " ", "b", " ", "(",
           "3", ")", " ", "c", " ", "(", "4", ")", " ", "d">> >>,
      << <<" ", "(", "2", ")", " ", "b", ",">>, <<"(", "4", ")", " ", "d",
                                                  ";">>, <<"(", "1", ")",
                                                           " ",
                                                           " ",
                                                           "a",
                                                           " ",
                                                           " ",
                                                           "a">>, <<"(",
                                                                    "3",
                                                                    ")",
                                                                    " ",
                                                                    "c">> >> }

NgAnswerLines ==
    { <<>>, << <<"A", "n", "s", "w", "e", "r", ":", " ", "2">> >>, << <<
                                                                        "A",
                                                                        "n",
                                                                        "s",
                                                                        " ",
                                                                        "(",
                                                                        "3",
                                                                        ")">> >> }

RECURSIVE JoinLines(_)
JoinLines(lines) ==
    IF lines = <<>> THEN <<>>
    ELSE IF Len(lines) = 1 THEN Head(lines)
    ELSE Head(lines) \o <<LineBreak>> \o JoinLines(Tail(lines))

NgComplete ==
    << <<"(", "1", ")", " ", "a">>, <<"(", "2", ")", " ", "b">>,
       <<"(", "3", ")", " ", "c">>, <<"(", "4", ")", " ", "d">> >>

\* a label line and option lines, or complete options and an answer line
NgSections ==
    { <<l>> \o o : l \in NgLabels, o \in NgOptionLines }
        \cup { <<<<"Q", "1", ".", " ", "s">>>> \o NgComplete \o a :
                 a \in NgAnswerLines }

NgInputs ==
    { JoinLines(Flat(ss)) : ss \in SeqsUpTo(NgSections, MaxSections) }

NgInit ==
    /\ markdown \in NgInputs
    /\ ng_pc = "split"
    /\ question_sections = <<>>
    /\ ng_i = 1
    /\ ng_questions = <<>>
    /\ ParserIdle /\ AkIdle /\ VaIdle /\ NzIdle /\ DsIdle /\ TgIdle /\ BpIdle /\ GpIdle /\ TfIdle

\* line 90
Split ==
    /\ ng_pc = "split"
    /\ question_sections' = SplitIntoQuestionSections(markdown)
    /\ ng_pc' = "sections"
    /\ UNCHANGED <<markdown, ng_i, ng_questions, parserVars, akVars, vaVars,
                   nzVars, dsVars,
                   tgVars,
                   bpVars,
                   gpVars,
                   tfVars>>

\* options of the section the loop of line 92 is at
SectionOptions(i) ==
    ExtractOptions(RemoveQuestionNumber(question_sections[i].section)).options

SkipSection ==
    /\ ng_i' = ng_i + 1
    /\ UNCHANGED <<markdown, ng_pc, question_sections, ng_questions,
                   parserVars, akVars, vaVars, nzVars, dsVars,
                   tgVars,
                   bpVars,
                   gpVars,
                   tfVars>>

\* lines 145-147
SkipNoOptions ==
    /\ ng_pc = "sections"
    /\ ng_i <= Len(question_sections)
    /\ SectionOptions(ng_i) = <<>>
    /\ SkipSection

\* lines 149-151
SkipLessThanFour ==
    /\ ng_pc = "sections"
    /\ ng_i <= Len(question_sections)
    /\ SectionOptions(ng_i) # <<>>
    /\ Len(SectionOptions(ng_i)) < MinOptions
    /\ SkipSection

\* the same without the test of line 149: any section with an option is
\* parsed
ParseQuestionAnyCount ==
    /\ ng_pc = "sections"
    /\ ng_i <= Len(question_sections)
    /\ SectionOptions(ng_i) # <<>>
    /\ LET section == RemoveQuestionNumber(question_sections[ng_i].section)
           extracted == ExtractOptions(section)
           question_latex == ExtractQuestionText(extracted.remaining_text)
       IN  ng_questions' =
               IF question_latex = <<>> THEN ng_questions
               ELSE Append(ng_questions,
                      [question_number |-> question_sections[ng_i].q_num,
                       question_latex |-> StripOf(question_latex, Spaces),
                       options |-> extracted.options,
                       correct_answer |-> ExtractAnswer(section),
                       subject |-> DetectSubject(question_latex),
                       question_type |->
                           DetectQuestionType(extracted.options)])
    /\ ng_i' = ng_i + 1
    /\ UNCHANGED <<markdown, ng_pc, question_sections, parserVars, akVars,
                   vaVars, nzVars, dsVars,
                   tgVars,
                   bpVars,
                   gpVars,
                   tfVars>>

\* lines 153-180 and 95-97: the question is appended unless its text is
\* empty (lines 156-158)
ParseQuestion ==
    /\ ng_pc = "sections"
    /\ ng_i <= Len(question_sections)
    /\ Len(SectionOptions(ng_i)) >= MinOptions
    /\ LET section == RemoveQuestionNumber(question_sections[ng_i].section)
           extracted == ExtractOptions(section)
           question_latex == ExtractQuestionText(extracted.remaining_text)
       IN  ng_questions' =
               IF question_latex = <<>> THEN ng_questions
               ELSE Append(ng_questions,
                      [question_number |-> question_sections[ng_i].q_num,
                       question_latex |-> StripOf(question_latex, Spaces),
                       options |-> extracted.options,
                       correct_answer |-> ExtractAnswer(section),
                       subject |-> DetectSubject(question_latex),
                       question_type |->
                           DetectQuestionType(extracted.options)])
    /\ ng_i' = ng_i + 1
    /\ UNCHANGED <<markdown, ng_pc, question_sections, parserVars, akVars,
                   vaVars, nzVars, dsVars,
                   tgVars,
                   bpVars,
                   gpVars,
                   tfVars>>

\* lines 102-103
ReturnQuestions ==
    /\ ng_pc = "sections"
    /\ ng_i > Len(question_sections)
    /\ ng_pc' = "done"
    /\ UNCHANGED <<markdown, question_sections, ng_i, ng_questions, parserVars,
                   akVars, vaVars, nzVars, dsVars,
                   tgVars,
                   bpVars,
                   gpVars,
                   tfVars>>

NgNext ==
    \/ Split
    \/ SkipNoOptions
    \/ SkipLessThanFour
    \/ ParseQuestion
    \/ ReturnQuestions

NgSpec == NgInit /\ [][NgNext]_vars

\* the sections of the content that yield at least four non-empty options,
\* in document order
QualifyingSections ==
    LET sections == SplitIntoQuestionSections(markdown)
        Qualifies(s) ==
            Len(ExtractOptions(RemoveQuestionNumber(s.section)).options)
                >= MinOptions
    IN  SelectSeq(sections, Qualifies)

\* C23: no emitted NougatQuestion has fewer than 4 options, and when
\* parse_markdown_content returns, the emitted questions are the sections
\* that yield at least 4 non-empty options, in document order, each with
\* the number of its label
C23_OnlyFourOptionSectionsEmitted ==
    /\ \A i \in 1..Len(ng_questions) :
          Len(ng_questions[i].options) >= MinOptions
    /\ ng_pc = "done" =>
          /\ Len(ng_questions) = Len(QualifyingSections)
          /\ \A i \in 1..Len(ng_questions) :
                ng_questions[i].question_number = QualifyingSections[i].q_num

\* a section with one to three options was skipped and the section after
\* it, whose label has a smaller number, was emitted
C23_Witness ==
    /\ ng_pc = "done"
    /\ Len(question_sections) = 2
    /\ Len(SectionOptions(1)) \in 1..(MinOptions - 1)
    /\ Len(ng_questions) = 1
    /\ ng_questions[1].question_number < question_sections[1].q_num

(***************************************************************************)
(* run_tagging (src/tag_questions.py)                                      *)
(* A question is known by the index of its line in INPUT_FILE; the three   *)
(* tags of a result are kept, the text of the question is not.  The reply  *)
(* of the LLM is an input: parse_llm_response accepts any list of the      *)
(* expected length, whatever the ids in it.                                *)
(***************************************************************************)
\* the file does not exist
NoFile == <<>>

\* result.get("id") is None
NoId == -1

\* BATCH_SIZE = 10 of line 40, scaled down with the datasets explored
BATCH_SIZE == 2

MaxRows == 3

MaxRuns == 2

\* the defaults of lines 231-235, 170-174 and 261-263
UnknownTags == [subject |-> "Unknown", topic |-> "Unknown",
                difficulty |-> "medium"]

\* tags a reply can carry: a complete result, and one without topic and
\* difficulty, which lines 232-234 fill in
LlmTags ==
    { [subject |-> "Physics", topic |-> "Kinematics", difficulty |-> "easy"],
      [subject |-> "Chemistry", topic |-> "Unknown", difficulty |-> "medium"] }

\* ids a reply can carry: the index of any line, an index no line has, none
LlmIds == (0..MaxRows) \cup {NoId}

\* the lines of INPUT_FILE: TRUE for a question, FALSE for a blank line
TgInputs ==
    UNION { [ 1..n -> BOOLEAN ] : n \in 1..MaxRows }

\* load_dataset: the _idx of every non-blank line, in file order
RECURSIVE LoadDataset(_, _)
LoadDataset(lines, i) ==
    IF i > Len(lines) THEN <<>>
    ELSE (IF lines[i] THEN <<i - 1>> ELSE <<>>) \o LoadDataset(lines, i + 1)

\* load_progress
LoadProgress(file) ==
    IF file # NoFile THEN file
    ELSE [completed_indices |-> {}, results |-> <<>>]

\* line 209
Remaining(qs, done) ==
    LET NotDone(idx) == idx \notin done
    IN  SelectSeq(qs, NotDone)

\* line 216
TotalBatches(rem) == (Len(rem) + BATCH_SIZE - 1) \div BATCH_SIZE

\* lines 219-221
Batch(rem, num) ==
    SubSeq(rem, num * BATCH_SIZE + 1,
           Min({num * BATCH_SIZE + BATCH_SIZE, Len(rem)}))

\* the loop of lines 228-236 from result k: a result with an id is stored
\* under the id and the id is added to completed
RECURSIVE StoreResults(_, _, _)
StoreResults(batch_results, k, state) ==
    IF k > Len(batch_results) THEN state
    ELSE LET result == batch_results[k]
             stored ==
                 IF result.id = NoId THEN state
                 ELSE [results |->
                           [ idx \in DOMAIN state.results \cup {result.id} |->
                               IF idx = result.id THEN result.tags
                               ELSE state.results[idx] ],
                       completed |-> state.completed \cup {result.id}]
         IN  StoreResults(batch_results, k + 1, stored)

\* the defaults of tag_batch, lines 169-174
DefaultResults(batch) ==
    [ k \in 1..Len(batch) |-> [id |-> batch[k], tags |-> UnknownTags] ]

TgInit ==
    /\ INPUT_FILE \in TgInputs
    /\ PROGRESS_FILE = NoFile
    /\ OUTPUT_FILE = NoFile
    /\ tg_pc = "idle"
    /\ tg_questions = <<>>
    /\ tg_completed = {}
    /\ tg_results = <<>>
    /\ tg_remaining = <<>>
    /\ batch_num = 0
    /\ tg_runs = 0
    /\ tg_loaded = [completed_indices |-> {}, results |-> <<>>]
    /\ tg_sent = {}
    /\ ParserIdle /\ AkIdle /\ VaIdle /\ NzIdle /\ DsIdle /\ NgIdle /\ BpIdle /\ GpIdle /\ TfIdle

\* lines 198-214: a run starts, on a first start or after an earlier run
\* has stopped or returned
StartRun ==
    /\ tg_pc \in {"idle", "stopped", "done"}
    /\ tg_runs < MaxRuns
    /\ tg_runs' = tg_runs + 1
    /\ tg_questions' = LoadDataset(INPUT_FILE, 1)
    /\ tg_loaded' = LoadProgress(PROGRESS_FILE)
    /\ tg_completed' = LoadProgress(PROGRESS_FILE).completed_indices
    /\ tg_results' = LoadProgress(PROGRESS_FILE).results
    /\ tg_remaining' = Remaining(LoadDataset(INPUT_FILE, 1),
                                 LoadProgress(PROGRESS_FILE).completed_indices)
    /\ batch_num' = 0
    /\ tg_sent' = {}
    /\ tg_pc' = IF tg_remaining' = <<>> THEN "write" ELSE "batches"
    /\ UNCHANGED <<INPUT_FILE, PROGRESS_FILE, OUTPUT_FILE, parserVars, akVars,
                   vaVars, nzVars, dsVars, ngVars,
                   bpVars,
                   gpVars,
                   tfVars>>

\* lines 218-247 for one batch and the list tag_batch returned for it
ProcessBatch(batch_results) ==
    LET batch  == Batch(tg_remaining, batch_num)
        stored == StoreResults(batch_results, 1,
                               [results |-> tg_results,
                                completed |-> tg_completed])
    IN  /\ tg_sent' = tg_sent \cup { batch[k] : k \in 1..Len(batch) }
        /\ tg_results' = stored.results
        /\ tg_completed' = stored.completed
        /\ PROGRESS_FILE' = [completed_indices |-> stored.completed,
                             results |-> stored.results]
        /\ batch_num' = batch_num + 1
        /\ tg_pc' = IF batch_num + 1 < TotalBatches(tg_remaining)
                    THEN "batches" ELSE "write"
        /\ UNCHANGED <<INPUT_FILE, OUTPUT_FILE, tg_questions, tg_remaining,
                       tg_runs, tg_loaded, parserVars, akVars, vaVars, nzVars,
                       dsVars, ngVars,
                   bpVars,
                   gpVars,
                   tfVars>>

\* tag_batch returns the parsed reply of the LLM (lines 163-167)
TagBatchParsed ==
    /\ tg_pc = "batches"
    /\ \E reply \in [ 1..Len(Batch(tg_remaining, batch_num)) ->
                        [id : LlmIds, tags : LlmTags] ] :
          ProcessBatch(reply)

\* tag_batch returns its defaults: the reply did not parse or the call
\* raised (lines 168-174)
TagBatchDefaults ==
    /\ tg_pc = "batches"
    /\ ProcessBatch(DefaultResults(Batch(tg_remaining, batch_num)))

\* the process ends between two batches, or before the first
StopBetweenBatches ==
    /\ tg_pc = "batches"
    /\ tg_pc' = "stopped"
    /\ UNCHANGED <<INPUT_FILE, PROGRESS_FILE, OUTPUT_FILE, tg_questions,
                   tg_completed, tg_results, tg_remaining, batch_num, tg_runs,
                   tg_loaded, tg_sent, parserVars, akVars, vaVars, nzVars,
                   dsVars, ngVars,
                   bpVars,
                   gpVars,
                   tfVars>>

\* lines 253-268
TaggedRows(qs, res) ==
    [ k \in 1..Len(qs) |->
        [line |-> qs[k],
         tags |-> IF qs[k] \in DOMAIN res THEN res[qs[k]] ELSE UnknownTags] ]

WriteOutput ==
    /\ tg_pc = "write"
    /\ OUTPUT_FILE' = [rows |-> TaggedRows(tg_questions, tg_results)]
    /\ tg_pc' = "cleanup"
    /\ UNCHANGED <<INPUT_FILE, PROGRESS_FILE, tg_questions, tg_completed,
                   tg_results, tg_remaining, batch_num, tg_runs, tg_loaded,
                   tg_sent, parserVars, akVars, vaVars, nzVars, dsVars,
                   ngVars,
                   bpVars,
                   gpVars,
                   tfVars>>

\* lines 293-295
RemoveProgress ==
    /\ tg_pc = "cleanup"
    /\ Cardinality(tg_completed) = Len(tg_questions)
    /\ PROGRESS_FILE' = NoFile
    /\ tg_pc' = "done"
    /\ UNCHANGED <<INPUT_FILE, OUTPUT_FILE, tg_questions, tg_completed,
                   tg_results, tg_remaining, batch_num, tg_runs, tg_loaded,
                   tg_sent, parserVars, akVars, vaVars, nzVars, dsVars,
                   ngVars,
                   bpVars,
                   gpVars,
                   tfVars>>

\* line 293, the test fails
KeepProgress ==
    /\ tg_pc = "cleanup"
    /\ Cardinality(tg_completed) # Len(tg_questions)
    /\ tg_pc' = "done"
    /\ UNCHANGED <<INPUT_FILE, PROGRESS_FILE, OUTPUT_FILE, tg_questions,
                   tg_completed, tg_results, tg_remaining, batch_num, tg_runs,
                   tg_loaded, tg_sent, parserVars, akVars, vaVars, nzVars,
                   dsVars, ngVars,
                   bpVars,
                   gpVars,
                   tfVars>>

TgNext ==
    \/ StartRun
    \/ TagBatchParsed
    \/ TagBatchDefaults
    \/ StopBetweenBatches
    \/ WriteOutput
    \/ RemoveProgress
    \/ KeepProgress

TgSpec == TgInit /\ [][TgNext]_vars

\* the indices of the questions of the dataset
QuestionIndices == { tg_questions[k] : k \in 1..Len(tg_questions) }

\* the progress file holds what the batches finished so far have stored
CheckpointAfterEveryBatch ==
    (tg_pc \in {"batches", "stopped"} /\ batch_num >= 1) =>
        /\ PROGRESS_FILE # NoFile
        /\ PROGRESS_FILE.results = tg_results
        /\ PROGRESS_FILE.completed_indices = tg_completed

\* the run has sent no question whose index the progress file had as
\* completed
SendsOnlyNotCompleted == tg_sent \cap tg_loaded.completed_indices = {}

\* the results the run loaded from the progress file are as they were
StoredResultsUnchanged ==
    \A idx \in DOMAIN tg_loaded.results :
        /\ idx \in DOMAIN tg_results
        /\ tg_results[idx] = tg_loaded.results[idx]

\* the output has one row per input question, in input order
OneRowPerQuestion ==
    tg_pc \in {"cleanup", "done"} =>
        /\ OUTPUT_FILE # NoFile
        /\ Len(OUTPUT_FILE.rows) = Len(tg_questions)
        /\ \A k \in 1..Len(tg_questions) :
              OUTPUT_FILE.rows[k].line = tg_questions[k]

\* a run that has returned has left no progress file only if every
\* question index is completed
DeletedOnlyWhenAllCompleted ==
    (tg_pc = "done" /\ PROGRESS_FILE = NoFile) =>
        QuestionIndices \subseteq tg_completed

\* C27: run_tagging checkpoints after every batch; a later run sends only
\* the questions whose index is not completed, keeps the stored results
\* unchanged and writes one tagged row per input question in input order;
\* the progress file is deleted only when every question index is completed
C27_CheckpointAndResume ==
    /\ CheckpointAfterEveryBatch
    /\ SendsOnlyNotCompleted
    /\ StoredResultsUnchanged
    /\ OneRowPerQuestion
    /\ DeletedOnlyWhenAllCompleted

(***************************************************************************)
(* BatchProcessor (src/src/pipeline/batch_processor.py)                    *)
(* A PDF is known by its position in the sorted list discover_pdfs         *)
(* returns.  process_single_pdf runs in the main thread (sequential mode)  *)
(* or in a worker of the ThreadPoolExecutor (parallel mode); self.stats is *)
(* written by the main thread only, inside `with self.stats_lock`, and     *)
(* such a block is one step.  The times and durations are left out.        *)
(***************************************************************************)
MaxPdfs == 2

MaxWorkers == 2

MaxCalls == 2

\* the dictionary of lines 88-95, with the status of line 115 or line 123
Result(pdf_file, status) == [pdf_file |-> pdf_file, status |-> status]

\* what pipeline.run() does for one PDF: it returns, or raises an Exception
PipelineOutcomes == {"returns", "raises"}

\* process_single_pdf: the try of lines 99-125 turns an exception of the
\* pipeline into a result with the status 'error'
ProcessSinglePdf(pdf_file, outcome) ==
    Result(pdf_file, IF outcome = "returns" THEN "success" ELSE "error")

\* the block under stats_lock of lines 154-160 and 196-202
CountResult(s, result, pdf_file) ==
    IF result.status = "success"
    THEN [s EXCEPT !.processed = @ + 1, !.successful = @ + 1]
    ELSE [s EXCEPT !.processed = @ + 1, !.failed = @ + 1,
                   !.failed_files = Append(@, pdf_file)]

\* the block under stats_lock of lines 209-212
CountException(s, pdf_file) ==
    [s EXCEPT !.processed = @ + 1, !.failed = @ + 1,
              !.failed_files = Append(@, pdf_file)]

\* a future of the executor: not started, running in a worker, finished
\* with the value process_single_pdf returned, and taken by as_completed
Pending == [state |-> "pending", result |-> Result(0, "unknown")]

BpInit ==
    /\ pdf_files \in { [ i \in 1..n |-> i ] : n \in 0..MaxPdfs }
    /\ max_workers \in 1..MaxWorkers
    /\ stats = [total_pdfs |-> 0, processed |-> 0, successful |-> 0,
                failed |-> 0, failed_files |-> <<>>]
    /\ bp_pc = "idle"
    /\ bp_i = 1
    /\ bp_results = <<>>
    /\ futures = <<>>
    /\ bp_calls = 0
    /\ ParserIdle /\ AkIdle /\ VaIdle /\ NzIdle /\ DsIdle /\ NgIdle /\ TgIdle /\ GpIdle /\ TfIdle

\* process_sequential is called, lines 141-145
CallSequential ==
    /\ bp_pc \in {"idle", "returned"}
    /\ bp_calls < MaxCalls
    /\ bp_calls' = bp_calls + 1
    /\ stats' = [stats EXCEPT !.total_pdfs = Len(pdf_files)]
    /\ bp_results' = <<>>
    /\ bp_i' = 1
    /\ bp_pc' = "sequential"
    /\ UNCHANGED <<pdf_files, max_workers, futures, parserVars, akVars, vaVars,
                   nzVars, dsVars, ngVars, tgVars,
                   gpVars,
                   tfVars>>

\* one iteration of the loop of lines 147-160
SequentialStep ==
    /\ bp_pc = "sequential"
    /\ bp_i <= Len(pdf_files)
    /\ \E outcome \in PipelineOutcomes :
          LET result == ProcessSinglePdf(pdf_files[bp_i], outcome)
          IN  /\ bp_results' = Append(bp_results, result)
              /\ stats' = CountResult(stats, result, pdf_files[bp_i])
    /\ bp_i' = bp_i + 1
    /\ UNCHANGED <<pdf_files, max_workers, bp_pc, futures, bp_calls,
                   parserVars, akVars, vaVars, nzVars, dsVars, ngVars,
                   tgVars,
                   gpVars,
                   tfVars>>

\* lines 162-163
SequentialReturn ==
    /\ bp_pc = "sequential"
    /\ bp_i > Len(pdf_files)
    /\ bp_pc' = "returned"
    /\ UNCHANGED <<pdf_files, max_workers, stats, bp_i, bp_results, futures,
                   bp_calls, parserVars, akVars, vaVars, nzVars, dsVars,
                   ngVars, tgVars,
                   gpVars,
                   tfVars>>

\* process_parallel is called and submits every task, lines 174-185
CallParallel ==
    /\ bp_pc \in {"idle", "returned"}
    /\ bp_calls < MaxCalls
    /\ bp_calls' = bp_calls + 1
    /\ stats' = [stats EXCEPT !.total_pdfs = Len(pdf_files)]
    /\ bp_results' = <<>>
    /\ futures' = [ i \in 1..Len(pdf_files) |-> Pending ]
    /\ bp_pc' = "parallel"
    /\ UNCHANGED <<pdf_files, max_workers, bp_i, parserVars, akVars, vaVars,
                   nzVars, dsVars, ngVars, tgVars,
                   gpVars,
                   tfVars>>

Running == { i \in DOMAIN futures : futures[i].state = "running" }

\* a free worker of the pool takes a task
WorkerStart ==
    /\ bp_pc = "parallel"
    /\ Cardinality(Running) < max_workers
    /\ \E i \in DOMAIN futures :
          /\ futures[i].state = "pending"
          /\ futures' = [futures EXCEPT ![i].state = "running"]
    /\ UNCHANGED <<pdf_files, max_workers, stats, bp_pc, bp_i, bp_results,
                   bp_calls, parserVars, akVars, vaVars, nzVars, dsVars,
                   ngVars, tgVars,
                   gpVars,
                   tfVars>>

\* process_single_pdf ends in its worker, in any order among the running
\* tasks
WorkerFinish ==
    /\ bp_pc = "parallel"
    /\ \E i \in Running : \E outcome \in PipelineOutcomes :
          futures' = [futures EXCEPT
                        ![i] = [state |-> "done",
                                result |-> ProcessSinglePdf(pdf_files[i],
                                                            outcome)]]
    /\ UNCHANGED <<pdf_files, max_workers, stats, bp_pc, bp_i, bp_results,
                   bp_calls, parserVars, akVars, vaVars, nzVars, dsVars,
                   ngVars, tgVars,
                   gpVars,
                   tfVars>>

\* one iteration of the loop of lines 188-212 in the main thread:
\* future.result() returns the result, or raises what the task raised
Collect ==
    /\ bp_pc = "parallel"
    /\ \E i \in DOMAIN futures :
          /\ futures[i].state = "done"
          /\ futures' = [futures EXCEPT ![i].state = "collected"]
          /\ IF futures[i].result.status # "raised"
             THEN /\ bp_results' = Append(bp_results, futures[i].result)
                  /\ stats' = CountResult(stats, futures[i].result,
                                          pdf_files[i])
             ELSE /\ bp_results' = bp_results
                  /\ stats' = CountException(stats, pdf_files[i])
    /\ UNCHANGED <<pdf_files, max_workers, bp_pc, bp_i, bp_calls, parserVars,
                   akVars, vaVars, nzVars, dsVars, ngVars, tgVars,
                   gpVars,
                   tfVars>>

\* lines 214-215: as_completed is exhausted and the executor has shut down
ParallelReturn ==
    /\ bp_pc = "parallel"
    /\ \A i \in DOMAIN futures : futures[i].state = "collected"
    /\ bp_pc' = "returned"
    /\ UNCHANGED <<pdf_files, max_workers, stats, bp_i, bp_results, futures,
                   bp_calls, parserVars, akVars, vaVars, nzVars, dsVars,
                   ngVars, tgVars,
                   gpVars,
                   tfVars>>

BpNext ==
    \/ CallSequential
    \/ SequentialStep
    \/ SequentialReturn
    \/ CallParallel
    \/ WorkerStart
    \/ WorkerFinish
    \/ Collect
    \/ ParallelReturn

BpSpec == BpInit /\ [][BpNext]_vars

\* successful + failed == processed and len(failed_files) == failed
StatsConsistent ==
    /\ stats.successful + stats.failed = stats.processed
    /\ Len(stats.failed_files) = stats.failed

\* the results list has one entry per discovered PDF
OneResultPerPdf ==
    /\ Len(bp_results) = Len(pdf_files)
    /\ \A i \in 1..Len(pdf_files) :
          Cardinality({ k \in 1..Len(bp_results) :
                          bp_results[k].pdf_file = pdf_files[i] }) = 1

\* the same statement for the first call on a new BatchProcessor
FirstCallStatistics ==
    bp_calls <= 1 =>
        /\ StatsConsistent
        /\ bp_pc = "returned" =>
              /\ stats.processed = stats.total_pdfs
              /\ OneResultPerPdf

\* C28: in both modes successful + failed == processed and
\* len(failed_files) == failed at every point, and when the method returns
\* processed == total_pdfs and the results list has one entry per PDF
C28_StatisticsConsistent ==
    /\ StatsConsistent
    /\ bp_pc = "returned" =>
          /\ stats.processed = stats.total_pdfs
          /\ OneResultPerPdf

(***************************************************************************)
(* Paper generation (src/generate_paper.py)                                *)
(* A question is known by its subject, type, difficulty and place in its   *)
(* pool; the answer the key prints for it is known by the question.  The   *)
(* document is kept as what it numbers: the questions of the body with     *)
(* the value of the question counter each one is printed under, and the    *)
(* columns of the answer key.  random.shuffle is a choice among the        *)
(* orders of Ways.                                                         *)
(***************************************************************************)
MCQ_PER_SUBJECT == 20

INTEGER_PER_SUBJECT == 10

\* the subjects in the order of the loops of lines 192, 632 and 670
SUBJECTS == <<"Physics", "Chemistry", "Mathematics">>

\* the keys of mcq_counts and int_counts, in the order of insertion
DIFFICULTIES == <<"easy", "medium", "hard">>

\* the proportions of DIFFICULTY_PRESETS, in hundredths
DIFFICULTY_PRESETS ==
    [easy     |-> [easy |-> 40, medium |-> 50, hard |-> 10],
     medium   |-> [easy |-> 20, medium |-> 60, hard |-> 20],
     hard     |-> [easy |-> 10, medium |-> 40, hard |-> 50],
     balanced |-> [easy |-> 33, medium |-> 34, hard |-> 33]]

\* lines 197-205 and 214-221: int(per_subject * proportion) for each
\* difficulty, the rest of the rounding added to medium
Counts(per_subject, difficulty_dist) ==
    LET c == [d \in {"easy", "medium", "hard"} |->
                 (per_subject * difficulty_dist[d]) \div 100]
        total == c["easy"] + c["medium"] + c["hard"]
    IN  IF total < per_subject
        THEN [c EXCEPT !["medium"] = @ + (per_subject - total)]
        ELSE c

MaxPool == 1

Question(subject, question_type, difficulty, k) ==
    [subject |-> subject, question_type |-> question_type,
     difficulty |-> difficulty, k |-> k]

\* organized[subject][question_type][difficulty], from the size of the pool
Pool(subject, question_type, difficulty) ==
    [ k \in 1..organized[subject][question_type][difficulty] |->
        Question(subject, question_type, difficulty, k) ]

Ways == {"same", "reversed"}

Shuffle(s, way) ==
    IF way = "same" THEN s ELSE [ i \in 1..Len(s) |-> s[Len(s) + 1 - i] ]

\* s[:n]
Take(s, n) == SubSeq(s, 1, Min({n, Len(s)}))

\* the loops of lines 207-210 and 223-226
Picked(subject, question_type, counts, way) ==
    LET part(d) == Take(Shuffle(Pool(subject, question_type, d), way),
                        counts[d])
    IN  part(DIFFICULTIES[1]) \o part(DIFFICULTIES[2]) \o part(DIFFICULTIES[3])

\* the body of the loop over the subjects of select_questions, 192-230
SubjectQuestions(subject, way) ==
    LET difficulty_dist == DIFFICULTY_PRESETS[gp_difficulty]
        mcq_counts == Counts(MCQ_PER_SUBJECT, difficulty_dist)
        int_counts == Counts(INTEGER_PER_SUBJECT, difficulty_dist)
        subj_questions == Picked(subject, "mcq", mcq_counts, way)
                          \o Picked(subject, "integer", int_counts, way)
    IN  Shuffle(subj_questions, way)

IsMcq(q) == q.question_type = "mcq"

IsInteger(q) == q.question_type = "integer"

\* pools of one size for the three difficulties
Uniform(n) == [d \in {"easy", "medium", "hard"} |-> n]

\* a subject can have no question of a type, a few, or more than are picked
GpPools == {Uniform(0), Uniform(MaxPool), Uniform(MCQ_PER_SUBJECT)}

GpDifficulties == {"medium", "balanced"}

GpSubjects == {SUBJECTS[i] : i \in 1..Len(SUBJECTS)}

NotSelected == [subject \in GpSubjects |-> <<>>]

GpInit ==
    /\ organized \in [GpSubjects -> [{"mcq", "integer"} -> GpPools]]
    /\ gp_difficulty \in GpDifficulties
    /\ selected = NotSelected
    /\ gp_pc = "select"
    /\ gp_subject = 1
    /\ question_num = 1
    /\ paper_body = <<>>
    /\ answer_key = <<>>
    /\ ParserIdle /\ AkIdle /\ VaIdle /\ NzIdle /\ DsIdle /\ NgIdle /\ TgIdle /\ TfIdle
    /\ BpIdle

\* select_questions
SelectQuestions ==
    /\ gp_pc = "select"
    /\ \E way \in [GpSubjects -> Ways] :
          selected' = [subject \in GpSubjects |->
                          SubjectQuestions(subject, way[subject])]
    /\ gp_pc' = "paper_body"
    /\ UNCHANGED <<organized, gp_difficulty, gp_subject, question_num, paper_body,
                   answer_key, parserVars, akVars, vaVars, nzVars, dsVars,
                   ngVars, tgVars, bpVars,
                   tfVars>>

\* the questions of one \begin{questions} block: \setcounter puts the
\* counter at first - 1 and every \question raises and prints it
Numbered(qs, first) == [ i \in 1..Len(qs) |-> [num |-> first + i - 1, q |-> qs[i]] ]

\* one subject of the loop of lines 632-661
BodySubject ==
    /\ gp_pc = "paper_body"
    /\ gp_subject <= Len(SUBJECTS)
    /\ LET subj_questions == selected[SUBJECTS[gp_subject]]
           mcqs == Take(SelectSeq(subj_questions, IsMcq), 20)
           integers == Take(SelectSeq(subj_questions, IsInteger), 10)
       IN  IF subj_questions = <<>>
           THEN UNCHANGED <<question_num, paper_body>>
           ELSE /\ paper_body' = paper_body \o Numbered(mcqs, question_num)
                             \o Numbered(integers, question_num + Len(mcqs))
                /\ question_num' = question_num + Len(mcqs) + Len(integers)
    /\ gp_subject' = gp_subject + 1
    /\ UNCHANGED <<organized, gp_difficulty, selected, gp_pc, answer_key,
                   parserVars, akVars, vaVars, nzVars, dsVars, ngVars, tgVars,
                   bpVars,
                   tfVars>>

\* lines 663-668
StartAnswerKey ==
    /\ gp_pc = "paper_body"
    /\ gp_subject > Len(SUBJECTS)
    /\ gp_pc' = "key"
    /\ gp_subject' = 1
    /\ UNCHANGED <<organized, gp_difficulty, selected, question_num, paper_body,
                   answer_key, parserVars, akVars, vaVars, nzVars, dsVars,
                   ngVars, tgVars, bpVars,
                   tfVars>>

\* lines 681-682, subj_idx counted from 0
StartNum(subj_idx) == subj_idx * 30 + 1

\* the columns of the tables of one subject, lines 685-713: Q{start_num + i}
\* over the answer of mcqs[i], Q{int_start + i} over that of integers[i]
KeyColumns(subj_idx, mcqs, integers) ==
    Numbered(mcqs, StartNum(subj_idx))
    \o Numbered(integers, StartNum(subj_idx) + Len(mcqs))

\* one subject of the loop of lines 670-715
KeySubject ==
    /\ gp_pc = "key"
    /\ gp_subject <= Len(SUBJECTS)
    /\ LET subj_questions == selected[SUBJECTS[gp_subject]]
           mcqs == Take(SelectSeq(subj_questions, IsMcq), 20)
           integers == Take(SelectSeq(subj_questions, IsInteger), 10)
       IN  IF subj_questions = <<>>
           THEN UNCHANGED answer_key
           ELSE answer_key' = answer_key
                                \o KeyColumns(gp_subject - 1, mcqs, integers)
    /\ gp_subject' = gp_subject + 1
    /\ UNCHANGED <<organized, gp_difficulty, selected, gp_pc, question_num,
                   paper_body, parserVars, akVars, vaVars, nzVars, dsVars, ngVars,
                   tgVars, bpVars,
                   tfVars>>

\* the document is complete (the solutions section numbers nothing here)
GpReturn ==
    /\ gp_pc = "key"
    /\ gp_subject > Len(SUBJECTS)
    /\ gp_pc' = "done"
    /\ UNCHANGED <<organized, gp_difficulty, selected, gp_subject,
                   question_num, paper_body, answer_key, parserVars, akVars, vaVars,
                   nzVars, dsVars, ngVars, tgVars, bpVars,
                   tfVars>>

GpNext ==
    \/ SelectQuestions
    \/ BodySubject
    \/ StartAnswerKey
    \/ KeySubject
    \/ GpReturn

GpSpec == GpInit /\ [][GpNext]_vars

\* the question the key lists under Q n
ListedUnder(n) ==
    { answer_key[k].q : k \in { j \in 1..Len(answer_key) : answer_key[j].num = n } }

\* C29: a question printed in the body as Qn has its answer listed in the
\* answer key under the same number n, for every selection
C29_AnswerKeyNumbersMatchBody ==
    gp_pc = "done" =>
        \A i \in 1..Len(paper_body) : ListedUnder(paper_body[i].num) = {paper_body[i].q}

\* how many questions of a subject the body prints
Printed(subject) ==
    Cardinality({ i \in 1..Len(paper_body) : paper_body[i].q.subject = subject })

\* the numbers agree for a question when every subject before its own
\* prints 30 questions
NumbersAgreeAfterFullSubjects ==
    gp_pc = "done" =>
        \A i \in 1..Len(paper_body) :
            (\A s \in 1..Len(SUBJECTS) :
                (\E t \in (s + 1)..Len(SUBJECTS) :
                    SUBJECTS[t] = paper_body[i].q.subject)
                => Printed(SUBJECTS[s]) = 30)
            => ListedUnder(paper_body[i].num) = {paper_body[i].q}

(***************************************************************************)
(* LLM transformation (src/llm_transform.py)                               *)
(* A question is known by its id; of a transformed question the model      *)
(* keeps the id and transform_action.  The classifier answers one entry    *)
(* per question with an action of its own choice, or with no action key;   *)
(* the transformation model answers something that passes the validation,  *)
(* something that fails it, or something that makes the call or the        *)
(* parsing raise.                                                          *)
(***************************************************************************)
MaxSelected == 2

MaxReplacements == 1

\* the value None that transform_single_question returns at line 491
NoQuestion == [returns_none |-> TRUE]

Original(id) == [id |-> id, transform_action |-> "unset"]

\* the actions the classification prompt names (line 73), and one it does
\* not name
ClassifierActions ==
    {"change_numbers", "rephrase", "fix_incomplete", "discard", "keep"}

\* c.get("action", default)
ActionOf(c, default) == IF "action" \in DOMAIN c THEN c.action ELSE default

\* what the call of the transformation model leads to: a question that
\* passes validate_transformed_question, one that fails it, an exception
TransformOutcomes == {"valid", "invalid", "error"}

\* transform_single_question, lines 440-569
TransformSingleQuestion(question, action, outcome) ==
    IF action \notin {"change_numbers", "rephrase", "fix_incomplete"}
    THEN NoQuestion
    ELSE IF outcome = "error"
    THEN [question EXCEPT !.transform_action = "error_fallback"]
    ELSE IF outcome = "invalid"
    THEN [question EXCEPT !.transform_action = "fallback_original"]
    ELSE [question EXCEPT !.transform_action = action]

TfInit ==
    /\ \E n \in 1..MaxSelected : tf_selected = [ i \in 1..n |-> Original(i - 1) ]
    /\ \E n \in 0..MaxReplacements :
          tf_pool = [ i \in 1..n |-> Original(MaxSelected + i) ]
    /\ api_key \in BOOLEAN
    /\ working_set = <<>>
    /\ pool_remaining = <<>>
    /\ classifications = <<>>
    /\ transformed = <<>>
    /\ tf_pc = "start"
    /\ ParserIdle /\ AkIdle /\ VaIdle /\ NzIdle /\ DsIdle /\ NgIdle /\ TgIdle
    /\ BpIdle /\ GpIdle

\* lines 591-594: without the API key the selected questions are returned
ReturnSelected ==
    /\ tf_pc = "start"
    /\ ~api_key
    /\ transformed' = tf_selected
    /\ tf_pc' = "returned"
    /\ UNCHANGED <<tf_selected, tf_pool, api_key, working_set, pool_remaining,
                   classifications, parserVars, akVars, vaVars, nzVars,
                   dsVars, ngVars, tgVars, bpVars, gpVars>>

\* lines 602-609: the working set, the rest of the pool and the
\* classification of the working set
Classify ==
    /\ tf_pc = "start"
    /\ api_key
    /\ working_set' = tf_selected
    /\ pool_remaining' = tf_pool
    /\ \E reply \in [1..Len(tf_selected) -> ClassifierActions \cup {"no key"}] :
          classifications' =
              [ i \in 1..Len(tf_selected) |->
                  IF reply[i] = "no key" THEN [id |-> i - 1]
                  ELSE [id |-> i - 1, action |-> reply[i]] ]
    /\ tf_pc' = "replace"
    /\ UNCHANGED <<tf_selected, tf_pool, api_key, transformed, parserVars,
                   akVars, vaVars, nzVars, dsVars, ngVars, tgVars, bpVars,
                   gpVars>>

\* the positions of the entries with the action discard, line 619
DiscardedIndices ==
    { i \in 1..Len(classifications) :
        ActionOf(classifications[i], "unknown") = "discard" }

\* how many discarded positions come after position i: the loop of line
\* 624 goes from the last one to the first
DiscardedAfter(i) == Cardinality({ j \in DiscardedIndices : j > i })

\* lines 619-632: a discarded question is replaced from the pool while the
\* pool lasts, and its classification becomes rephrase
ReplaceDiscarded ==
    /\ tf_pc = "replace"
    /\ working_set' =
          [ i \in 1..Len(working_set) |->
              IF i \in DiscardedIndices /\ DiscardedAfter(i) < Len(pool_remaining)
              THEN pool_remaining[DiscardedAfter(i) + 1]
              ELSE working_set[i] ]
    /\ classifications' =
          [ i \in 1..Len(classifications) |->
              IF i \in DiscardedIndices
              THEN [id |-> i - 1, action |-> "rephrase"]
              ELSE classifications[i] ]
    /\ pool_remaining' =
          SubSeq(pool_remaining,
                 Min({Cardinality(DiscardedIndices), Len(pool_remaining)}) + 1,
                 Len(pool_remaining))
    /\ tf_pc' = "transform"
    /\ UNCHANGED <<tf_selected, tf_pool, api_key, transformed, parserVars,
                   akVars, vaVars, nzVars, dsVars, ngVars, tgVars, bpVars,
                   gpVars>>

\* one iteration of the loop of lines 638-649
TransformStep ==
    /\ tf_pc = "transform"
    /\ Len(transformed) < Min({Len(working_set), Len(classifications)})
    /\ LET i == Len(transformed) + 1
           c == classifications[i]
           action == IF ActionOf(c, "rephrase") = "discard" THEN "rephrase"
                     ELSE ActionOf(c, "rephrase")
       IN  \E outcome \in TransformOutcomes :
              transformed' =
                  Append(transformed,
                         TransformSingleQuestion(working_set[i], action,
                                                 outcome))
    /\ UNCHANGED <<tf_selected, tf_pool, api_key, working_set, pool_remaining,
                   classifications, tf_pc, parserVars, akVars, vaVars,
                   nzVars, dsVars, ngVars, tgVars, bpVars, gpVars>>

\* lines 651-660: the summary reads q.get("transform_action") of every
\* entry, which raises AttributeError for None
Summarise ==
    /\ tf_pc = "transform"
    /\ Len(transformed) = Min({Len(working_set), Len(classifications)})
    /\ tf_pc' = IF \E i \in 1..Len(transformed) : transformed[i] = NoQuestion
                THEN "raised" ELSE "returned"
    /\ UNCHANGED <<tf_selected, tf_pool, api_key, working_set, pool_remaining,
                   classifications, transformed, parserVars, akVars, vaVars,
                   nzVars, dsVars, ngVars, tgVars, bpVars, gpVars>>

TfNext ==
    \/ ReturnSelected
    \/ Classify
    \/ ReplaceDiscarded
    \/ TransformStep
    \/ Summarise

TfSpec == TfInit /\ [][TfNext]_vars

\* C30: transform_single_question returns a question, never None, for
\* every action transform_questions passes to it, an unrecognised action
\* of the classifier included, and transform_questions returns a list of
\* questions with one entry per classified question
C30_AlwaysAQuestion ==
    /\ \A i \in 1..Len(transformed) : transformed[i] # NoQuestion
    /\ tf_pc # "raised"
    /\ tf_pc = "returned" /\ api_key =>
          Len(transformed) = Len(classifications)

\* the same for the replies that hold only actions of the prompt or no
\* action key
RecognisedActionsGiveAQuestion ==
    (\A i \in 1..Len(classifications) :
        ActionOf(classifications[i], "rephrase") # "keep")
    => C30_AlwaysAQuestion

====
